---- MODULE Spec2Model ----
(***************************************************************************)
(* Video-Annote: the annotation-capture workflow of MainWindow              *)
(* (main_window.py) on top of the playback grid (widgets/video_grid.py),   *)
(* and the lane stacking of timeutils.py.                                   *)
(*                                                                         *)
(* Times are integers in milliseconds.  The program keeps a record's times *)
(* as float seconds ms / 1000.0; the model keeps the same instant as the   *)
(* integer ms, and frame numbers are round(ms * fps / 1000) computed on    *)
(* exact rationals with Python's round-half-to-even.                       *)
(***************************************************************************)
EXTENDS Integers, Sequences, FiniteSets, TLC

\* ------------------------------------------------------------------ bounds

\* The positions of the model, in ms: Mark(0) = 0, Mark(1) = FirstMark, and
\* from there on in steps of PosStep up to Mark(MaxPos).
MaxPos == 2
FirstMark == 2000
PosStep == 3000
\* At most this many records over all the session folders.
MaxRecords == 1
\* stack_blocks_into_lanes is given at most MaxBlocks blocks, with bounds in
\* 0..MaxT ms.
MaxBlocks == 3
MaxT == 2
\* The categories beyond the size of the palette.
MaxExtra == 2

None == "None"
\* "No start time yet" (pending_start_ms is None) and "no skill" (None).
NoMs == 0 - 1
NoSkill == 0
\* "Not editing" (_editing_idx is None); records are numbered from 1.
NoIdx == 0

\* ------------------------------------------------------------ session data

Labels == {"A", "B"}

\* The videos of a session, as session.json lists them.  Session "C" has
\* three streams of 10000, 8000 and 12000 ms, and is loaded into the grid on
\* its own only.  Session "A" is one
\* that CreateSessionDialog writes (video-1, video-2, ...).  Session "B" is a
\* session.json whose only entry has the empty string as video_id, which
\* VideoItem.from_dict accepts as it accepts every string.
video_ids(label) ==
    IF label = "A" THEN << "video-1", "video-2" >>
    ELSE IF label = "B" THEN << "" >>
    ELSE IF label = "C" THEN << "cam-1", "cam-2", "cam-3" >>
    ELSE << >>

SeqToSet(s) == { s[i] : i \in 1..Len(s) }

AllVideoIds == UNION { SeqToSet(video_ids(l)) : l \in Labels }

Mark(k) == IF k = 0 THEN 0 ELSE FirstMark + (k - 1) * PosStep

\* Duration of a stream's media in ms (0: no media could be loaded).
duration_for(vid) ==
    IF vid = "video-1" THEN Mark(MaxPos)
    ELSE IF vid = "video-2" THEN Mark(MaxPos - 1)
    ELSE IF vid = "cam-1" THEN 10000
    ELSE IF vid = "cam-2" THEN 8000
    ELSE IF vid = "cam-3" THEN 12000
    ELSE 0

\* Frame rate of a stream in frames per 1000 seconds: VideoItem.fps, 30.0
\* unless the import probed another rate (here 23.976 for video-2).
FpsDefault == 30000

fps_for(vid) == IF vid = "video-2" THEN 23976 ELSE FpsDefault

\* Python's round() of the rational n / d, n >= 0, d > 0: half to even.
Round(n, d) ==
    LET q == n \div d
        r == n % d
    IN  IF 2 * r < d THEN q
        ELSE IF 2 * r > d THEN q + 1
        ELSE IF q % 2 = 0 THEN q ELSE q + 1

\* int(round(time_s * fps)) for time_s = ms / 1000 and fps = fpsMilli / 1000.
seconds_to_frames(ms, fpsMilli) == Round(ms * fpsMilli, 1000000)

Max(a, b) == IF a >= b THEN a ELSE b
Min(a, b) == IF a <= b THEN a ELSE b

\* The skills of the root configuration, by number.
Skills == {1, 2}

\* ---------------------------------------------------------------- variables

VARIABLES
    has_root,            \* MainWindow.root_dir is set
    label,               \* state.label of the loaded session, or None
    disk,                \* label.tsv of every session folder (None: no folder)
    annotations,         \* state.annotations
    skill_selected,      \* MainWindow._skill_selected (a skill number or None)
    active_views,        \* VideoGrid._active_view_ids
    time_source,         \* VideoGrid._time_source_id
    audio_source,        \* VideoGrid._audio_source_id
    volume,              \* QMediaPlayer.volume() of every loaded player
    pstate,              \* QMediaPlayer.state() of every loaded player
    pending_play,        \* VideoGrid._pending_play
    position,            \* position of the time-source player, ms
    slider_value,        \* slider.value()
    slider_max,          \* slider.maximum()
    user_scrubbing,      \* MainWindow._user_scrubbing
    scrub_was_playing,   \* MainWindow._scrub_was_playing
    pending,             \* state.pending_* (step, camid, start_ms, sources, color)
    step_flow_was_playing, \* MainWindow._step_flow_was_playing
    btn,                 \* isEnabled() of the four step buttons
    allow_edit,          \* _SkillTimelineCanvas._allow_edit
    editing_idx,         \* _SkillTimelineCanvas._editing_idx (1-based) or None
    timeline_drag_active,      \* MainWindow._timeline_drag_active
    timeline_drag_was_playing, \* MainWindow._timeline_drag_was_playing
    msg,                 \* the message box the last handler showed, or "none"
    blocks,              \* input of stack_blocks_into_lanes
    lanes,               \* its result
    skill_color_map,     \* RootConfig.skill_color_map: step_no -> palette index
    color_asked,         \* the last call of get_skill_color_hex: step_no, cfg given
    color_returned,      \* what that call returned
    media_status,        \* QMediaPlayer.mediaStatus() of every loaded player
    player_pos,          \* the position last given to every player (setPosition)
    pending_play_deadline, \* VideoGrid._pending_play_deadline: 0 as constructed,
                         \* then 1 and 2 in turn (a new deadline each time)
    deadline_elapsed,    \* time.monotonic() has reached that deadline
    edit_start_ms,       \* _SkillTimelineCanvas._edit_start_ms
    edit_end_ms,         \* _SkillTimelineCanvas._edit_end_ms
    drag_mode,           \* _SkillTimelineCanvas._drag_mode: "left", "right" or None
    player_dur,          \* QMediaPlayer.duration() of every loaded player
    cell_black,          \* VideoCell: the black placeholder is shown
    ended_events,        \* time_source_ended emissions so far, modulo 2
    disk_writable        \* persist_session_state can write the session folder

vars == << has_root, label, disk, annotations, skill_selected, active_views,
           time_source, audio_source, volume, pstate, pending_play, position,
           slider_value, slider_max, user_scrubbing, scrub_was_playing,
           pending, step_flow_was_playing, btn, allow_edit, editing_idx,
           timeline_drag_active, timeline_drag_was_playing, msg,
           blocks, lanes, skill_color_map, color_asked, color_returned,
           media_status, player_pos, pending_play_deadline, deadline_elapsed,
           edit_start_ms, edit_end_ms, drag_mode,
           player_dur, cell_black, ended_events, disk_writable >>

winVars == << has_root, label, disk, annotations, skill_selected, active_views,
              time_source, audio_source, volume, pstate, pending_play, position,
              slider_value, slider_max, user_scrubbing, scrub_was_playing,
              pending, step_flow_was_playing, btn, allow_edit, editing_idx,
              timeline_drag_active, timeline_drag_was_playing, msg >>

stackVars == << blocks, lanes >>

colorVars == << skill_color_map, color_asked, color_returned >>

\* The state of the parts that are exercised on their own, which the
\* window's handlers leave alone.
\* What the grid keeps per player and for its play gate.  The window's
\* handlers take the gate's answer as an input (needs) and the time source's
\* position for every player's, and leave these alone.
gateVars == << media_status, player_pos, pending_play_deadline, deadline_elapsed >>

\* The tentative bounds of the timeline's edit mode and the handle that is
\* dragged, which only the handlers of the timeline edit change.
editVars == << edit_start_ms, edit_end_ms, drag_mode >>

\* The durations the players have reported, the black placeholders of the
\* cells and the ended events raised, which the grid keeps and the window's
\* handlers leave alone.
syncVars == << player_dur, cell_black, ended_events >>

\* Whether the session folder can be written, which no handler changes.
ioVars == << disk_writable >>

partVars == << stackVars, colorVars, gateVars, editVars, syncVars, ioVars >>

\* --------------------------------------------------------- playback grid

Players == SeqToSet(video_ids(label))

is_loaded == label # None

\* VideoGrid._time_source_player: the id must be truthy and loaded.
time_source_player(ts, players) ==
    IF ts # None /\ ts # "" /\ ts \in players THEN ts ELSE None

is_playing(ps, ts) ==
    LET m == time_source_player(ts, DOMAIN ps)
    IN  m # None /\ ps[m] = "playing"

pause_all(ps) == [v \in DOMAIN ps |-> "paused"]

\* set_audio_source that raises the new source and leaves the others as
\* they are.
set_volumes_raise_only(players, vid) ==
    [v \in players |-> IF v = vid THEN 100
                       ELSE IF v \in DOMAIN volume THEN volume[v] ELSE 0]

\* The loop of set_audio_source(vid): 100 on vid, 0 on every other player.
set_volumes(players, vid) == [v \in players |-> IF v = vid THEN 100 ELSE 0]

stop_all(ps) == [v \in DOMAIN ps |-> "stopped"]

\* p.play() on every player that leaves the pending play set.
play_every_pending(g) == [g EXCEPT !.ps = [v \in DOMAIN g.ps |-> "playing"]]

\* p.play() on every player.  QMediaPlayer restarts from 0 when play() is
\* called at EndOfMedia (main_window.py:586): the position of a time source
\* that stands at its end goes back to 0.
play_every(g) ==
    LET d == duration_for(g.ts)
    IN  [g EXCEPT !.ps = [v \in DOMAIN g.ps |-> "playing"],
                  !.pp = FALSE,
                  !.pos = IF DOMAIN g.ps # {} /\ d > 0 /\ g.pos >= d
                          THEN 0 ELSE g.pos]

\* _request_play_with_buffer_gate; needs is the value _needs_buffer_gate()
\* reads from the players' media status.
request_play_with_buffer_gate(g, needs) ==
    IF DOMAIN g.ps = {} THEN g
    ELSE IF ~needs THEN play_every(g)
    ELSE [g EXCEPT !.pp = TRUE]

play_all(g, needs) == request_play_with_buffer_gate(g, needs)

\* set_position_all(position_ms).
set_position_all(g, p, needs) ==
    IF DOMAIN g.ps = {} THEN g
    ELSE
      LET was == is_playing(g.ps, g.ts)
          g1 == [g EXCEPT !.ps = IF was THEN pause_all(g.ps) ELSE g.ps,
                          !.pos = Min(Max(0, p), duration_for(g.ts))]
      IN  IF was THEN request_play_with_buffer_gate(g1, needs) ELSE g1

\* The grid as one value: player states, pending play, time source, position.
Grid == [ps |-> pstate, pp |-> pending_play, ts |-> time_source, pos |-> position]

\* ------------------------------------------------------------ main window

\* _is_at_end: slider at (or within 2 ms of) its maximum.
is_at_end(val, mx) == mx > 0 /\ val >= Max(0, mx - 2)

\* _resume_if_allowed(was_playing), reading the slider (val, mx).
resume_if_allowed(g, was, val, mx, needs) ==
    IF ~was \/ is_at_end(val, mx)
    THEN [g EXCEPT !.ps = pause_all(g.ps)]
    ELSE play_all(g, needs)

\* pending_camid is None (a camid is the sequence of its ids).
NoCamid == << None >>

\* SessionState.clear_pending.
NoPending ==
    [step |-> NoSkill, camid |-> NoCamid, start_ms |-> NoMs,
     time_source |-> None, audio_source |-> None, color |-> None]

\* clear_pending() that clears nothing.
clear_pending_skipped(p) == p

\* SessionState.clear_pending on the pending fields p.
clear_pending(p) == NoPending

IdleButtons == [start |-> TRUE, confirm |-> FALSE, end |-> FALSE, finish |-> FALSE]

\* The buttons after a confirmed start with Confirm Start left enabled.
ConfirmedButtonsKeep(b) == [b EXCEPT !.end = TRUE, !.finish = FALSE]

\* The buttons after a confirmed start (main_window.py:901-903).
ConfirmedButtons(b) == [b EXCEPT !.confirm = FALSE, !.end = TRUE, !.finish = FALSE]

\* normalize_camid / encode_camid_from_active_views: empty ids are dropped,
\* duplicates removed, order kept.  The ids of the model are lower-case and
\* trimmed already; the joined string is kept as the sequence of its parts.
RECURSIVE encode_camid_from_active_views(_)
encode_camid_from_active_views(views) ==
    IF views = << >> THEN << >>
    ELSE LET rest == encode_camid_from_active_views(SubSeq(views, 1, Len(views) - 1))
             x == views[Len(views)]
         IN  IF x = "" \/ x \in SeqToSet(rest) THEN rest ELSE Append(rest, x)

\* The color start() resolves for the selected step: SkillsPanel.refresh has
\* given every configured skill its palette index, number n the index n - 1
\* of SKILL_COLOR_PALETTE_50.
pending_color_for(step) == IF step = 1 THEN "#E6194B" ELSE "#3CB44B"

\* The position the slider shows for a master position: QSlider clamps.
Clamp(v, mx) == Min(Max(0, v), mx)

\* _on_master_position: the slider follows the master unless scrubbing.
follow(newpos, mx) ==
    IF user_scrubbing THEN slider_value ELSE Clamp(newpos, mx)

\* ---------------------------------------------------------------- records

\* A recompute that takes the new times and leaves the frames as they were.
recompute_times_only(rec, fpsMilli) ==
    LET st == Max(rec.start_time, 0)
        et == Max(rec.end_time, 0)
    IN  [rec EXCEPT !.start_time = st, !.end_time = et, !.total_time = et - st]

\* recompute_from_times(rec, fps): frames and totals from the two times.
\* (The ValueError branch, end < start, is the caller's to handle: see
\* RecomputeFails.)
RecomputeFails(rec) == Max(rec.end_time, 0) < Max(rec.start_time, 0)

recompute_from_times(rec, fpsMilli) ==
    LET st == Max(rec.start_time, 0)
        et == Max(rec.end_time, 0)
        sf == seconds_to_frames(st, fpsMilli)
        ef == seconds_to_frames(et, fpsMilli)
    IN  [rec EXCEPT !.start_time = st, !.end_time = et,
                    !.total_time = et - st,
                    !.start_frame = sf, !.end_frame = ef,
                    !.total_frames = Max(ef - sf, 0)]

\* NewRecord with the frames cut off, int(time * fps), instead of rounded.
NewRecordTruncated(p, lbl, end_ms, conf) ==
    LET fps == fps_for(p.time_source)
        start_frame == (p.start_ms * fps) \div 1000000
        end_frame == (end_ms * fps) \div 1000000
    IN  [label |-> lbl,
         camid |-> p.camid,
         step_no |-> p.step,
         start_frame |-> start_frame,
         end_frame |-> end_frame,
         total_frames |-> Max(end_frame - start_frame, 0),
         start_time |-> p.start_ms,
         end_time |-> end_ms,
         total_time |-> end_ms - p.start_ms,
         time_source |-> p.time_source,
         audio_source |-> p.audio_source,
         confidence |-> conf]

\* NewRecord reading the category, the views and the audio source as they
\* are when the capture is finished.
NewRecordCurrent(p, lbl, end_ms, conf) ==
    LET fps == fps_for(p.time_source)
        start_frame == Round(p.start_ms * fps, 1000000)
        end_frame == Round(end_ms * fps, 1000000)
    IN  [label |-> lbl,
         camid |-> encode_camid_from_active_views(active_views),
         step_no |-> skill_selected,
         start_frame |-> start_frame,
         end_frame |-> end_frame,
         total_frames |-> Max(end_frame - start_frame, 0),
         start_time |-> p.start_ms,
         end_time |-> end_ms,
         total_time |-> end_ms - p.start_ms,
         time_source |-> p.time_source,
         audio_source |-> audio_source,
         confidence |-> conf]

\* The AnnotationRecord that _finish_step builds: the frames are
\* int(round(time * fps)) at the rate of the pending time source.
NewRecord(p, lbl, end_ms, conf) ==
    LET fps == fps_for(p.time_source)
        start_frame == Round(p.start_ms * fps, 1000000)
        end_frame == Round(end_ms * fps, 1000000)
    IN  [label |-> lbl,
         camid |-> p.camid,
         step_no |-> p.step,
         start_frame |-> start_frame,
         end_frame |-> end_frame,
         total_frames |-> Max(end_frame - start_frame, 0),
         start_time |-> p.start_ms,
         end_time |-> end_ms,
         total_time |-> end_ms - p.start_ms,
         time_source |-> p.time_source,
         audio_source |-> p.audio_source,
         confidence |-> conf]

\* An autosave that writes whether or not the folder can be written.
autosave_unchecked(d, lbl, recs) ==
    IF lbl = None THEN d ELSE [d EXCEPT ![lbl] = [exists |-> TRUE, recs |-> recs]]

\* _autosave_session: persist_session_state writes label.tsv of the loaded
\* session; when it raises (no session loaded, folder not writable) the
\* exception is caught and the files stay as they were.
autosave(d, lbl, recs) ==
    IF lbl = None \/ ~disk_writable THEN d
    ELSE [d EXCEPT ![lbl] = [exists |-> TRUE, recs |-> recs]]

\* The warning box of _autosave_session, shown after whatever the handler
\* showed before: m when the files were written.
autosave_msg(lbl, m) == IF lbl = None \/ ~disk_writable THEN "Autosave failed" ELSE m

\* set_annotations: an editing index out of range is dropped.
keep_editing_idx(idx, recs) == IF idx # NoIdx /\ idx <= Len(recs) THEN idx ELSE NoIdx

\* set_annotations: with the editing index the drag goes too.
keep_drag_mode(idx, recs, dm) == IF idx # NoIdx /\ idx > Len(recs) THEN None ELSE dm

\* set_allow_edit(True) whatever is pending.
allow_edit_always(p) == TRUE

\* _refresh_overlays_and_timeline's set_allow_edit.
allow_edit_for(p) == p.step = NoSkill /\ p.start_ms = NoMs

RemoveAt(s, i) == SubSeq(s, 1, i - 1) \o SubSeq(s, i + 1, Len(s))

\* The positions a user can put the slider handle on.
SliderPositions == { Mark(k) : k \in 0..MaxPos }

\* The next mark after position p.
NextMark(p) ==
    LET later == { m \in SliderPositions : m > p }
    IN  CHOOSE m \in later : \A n \in later : m <= n

\* The records of all the session folders together.
RECURSIVE TotalRecords(_, _)
TotalRecords(d, ls) ==
    IF ls = {} THEN 0
    ELSE LET l == CHOOSE x \in ls : TRUE
         IN  Len(d[l].recs) + TotalRecords(d, ls \ {l})

\* ------------------------------------------------------------------ colors

\* domain.py:13-24.
SKILL_COLOR_PALETTE_50 ==
    << "#E6194B", "#3CB44B", "#FFE119", "#4363D8", "#F58231",
       "#911EB4", "#46F0F0", "#F032E6", "#BCF60C", "#FABEBE",
       "#008080", "#E6BEFF", "#9A6324", "#FFFAC8", "#800000",
       "#AAFFC3", "#808000", "#FFD8B1", "#000075", "#808080",
       "#000000", "#FF4500", "#1E90FF", "#32CD32", "#FFD700",
       "#8A2BE2", "#00CED1", "#FF1493", "#7FFF00", "#FFB6C1",
       "#20B2AA", "#BA55D3", "#B8860B", "#F0E68C", "#A52A2A",
       "#2E8B57", "#BDB76B", "#D2691E", "#4169E1", "#DC143C",
       "#00FA9A", "#9400D3", "#FF8C00", "#2F4F4F", "#ADFF2F",
       "#C71585", "#00BFFF", "#228B22", "#FF6347", "#6A5ACD" >>

palette_n == Len(SKILL_COLOR_PALETTE_50)

\* The category numbers of the model: as many as the palette has colors, and
\* MaxExtra more.
StepNos == 1..(palette_n + MaxExtra)

\* A skill_color_map with no entry.
NoColors == [s \in {} |-> 0]

\* _generated_color_hex(gen_index) is a function of gen_index alone; the
\* name of the generated color stands for its hex value (the hue search of
\* domain.py:153-218 is not computed here).
generated_color_hex(gen_index) == "generated-" \o ToString(gen_index)

used_indexes(m) == { m[s] : s \in DOMAIN m }

\* An index choice that wraps around the palette.
next_index_wrapping(m) == Cardinality(DOMAIN m) % palette_n

\* domain.py:470-484: the lowest palette index not in use, or, the palette
\* exhausted, one more than the highest index in use (at least palette_n).
next_index(m) ==
    LET used == used_indexes(m)
        free == { i \in 0..(palette_n - 1) : i \notin used }
    IN  IF free # {} THEN CHOOSE i \in free : \A j \in free : i <= j
        ELSE LET top == CHOOSE i \in used : \A j \in used : j <= i
             IN  Max(top + 1, palette_n)

\* The None of dict.get: no index.
NoIndex == 0 - 1

\* A lookup that never finds the category.
lookup_index_never(m, s) == NoIndex

\* cfg.skill_color_map.get(step_no_i).
lookup_index(m, s) == IF s \in DOMAIN m THEN m[s] ELSE NoIndex

color_of_index(idx) ==
    IF idx < palette_n THEN SKILL_COLOR_PALETTE_50[(idx % palette_n) + 1]
    ELSE generated_color_hex(idx - palette_n)

\* get_skill_color_hex that files a missing step number as category 0.
get_skill_color_hex_none_as_zero(step_no, m) ==
    LET idx == next_index(m)
    IN  [color |-> color_of_index(idx),
         map |-> [x \in DOMAIN m \cup {0} |-> IF x = 0 THEN idx ELSE m[x]]]

\* get_skill_color_hex(None, cfg).
get_skill_color_hex_none(step_no, m) ==
    [color |-> SKILL_COLOR_PALETTE_50[1], map |-> m]

\* get_skill_color_hex(step_no, cfg) with a cfg whose skill_color_map is m:
\* the color returned and the map as the call leaves it.  NoSkill stands for
\* a step_no of None.
get_skill_color_hex(step_no, m) ==
    IF step_no = NoSkill THEN get_skill_color_hex_none(step_no, m)
    ELSE LET found == lookup_index(m, step_no)
             idx == IF found = NoIndex THEN next_index(m) ELSE found
         IN  [color |-> color_of_index(idx),
              map |-> [x \in DOMAIN m \cup {step_no} |->
                          IF x = step_no THEN idx ELSE m[x]]]

\* get_skill_color_hex(step_no, None): the old wrap by step number.
get_skill_color_hex_no_cfg(step_no) ==
    IF step_no = NoSkill THEN SKILL_COLOR_PALETTE_50[1]
    ELSE SKILL_COLOR_PALETTE_50[(step_no % palette_n) + 1]

\* VideoGrid.__init__: no player, no deadline.
GateIdle ==
    /\ media_status = << >>
    /\ player_pos = << >>
    /\ pending_play_deadline = 0
    /\ deadline_elapsed = FALSE

\* VideoGrid.__init__: no player, no cell, nothing ended.
SyncIdle ==
    /\ player_dur = << >>
    /\ cell_black = << >>
    /\ ended_events = 0

\* _SkillTimelineCanvas.__init__: no edit, no drag.
EditIdle ==
    /\ edit_start_ms = 0
    /\ edit_end_ms = 0
    /\ drag_mode = None

\* A session folder that can be written.
IoIdle == disk_writable = TRUE

ColorIdle ==
    /\ skill_color_map = NoColors
    /\ color_asked = [step_no |-> NoSkill, cfg |-> FALSE]
    /\ color_returned = None

\* The step numbers the callers ask a color for: none, the probed
\* categories already in the map, the lowest category not yet in it, and the
\* highest category of all (first used at any moment).
Probes == {1, 2, palette_n, palette_n + 1, palette_n + MaxExtra}

AskChoices ==
    LET fresh == StepNos \ DOMAIN skill_color_map
    IN  {NoSkill}
        \cup (DOMAIN skill_color_map \cap Probes)
        \cup { s \in fresh : (\A t \in fresh : s <= t) \/ s = palette_n + MaxExtra }

\* -------------------------------------------------------------------- Init

WinInit ==
    /\ has_root = FALSE
    /\ label = None
    /\ disk = [l \in Labels |-> [exists |-> (l = "B"), recs |-> << >>]]
    /\ annotations = << >>
    /\ skill_selected = NoSkill
    /\ active_views = << >>
    /\ time_source = None
    /\ audio_source = None
    /\ volume = << >>
    /\ pstate = << >>
    /\ pending_play = FALSE
    /\ position = 0
    /\ slider_value = 0
    /\ slider_max = 0
    /\ user_scrubbing = FALSE
    /\ scrub_was_playing = FALSE
    /\ pending = NoPending
    /\ step_flow_was_playing = FALSE
    /\ btn = [IdleButtons EXCEPT !.start = FALSE]
    /\ allow_edit = TRUE
    /\ editing_idx = NoIdx
    /\ timeline_drag_active = FALSE
    /\ timeline_drag_was_playing = FALSE
    /\ msg = "none"

\* The grid after a handler: player states, pending play, position; the
\* slider follows a position the players changed by themselves.
SetGrid(g) ==
    /\ pstate' = g.ps
    /\ pending_play' = g.pp
    /\ position' = g.pos

\* ----------------------------------------------------- root and sessions

\* set_root_dir(d) with a directory: ends in _update_enabled_state, which
\* enables Start whenever a session is loaded.
set_root_dir ==
    /\ UNCHANGED partVars
    /\ has_root' = TRUE
    /\ btn' = [btn EXCEPT !.start = is_loaded]
    /\ msg' = "none"
    /\ UNCHANGED << label, disk, annotations, skill_selected, active_views,
                    time_source, audio_source, volume, pstate, pending_play, position,
                    slider_value, slider_max, user_scrubbing, scrub_was_playing,
                    pending, step_flow_was_playing, allow_edit, editing_idx,
                    timeline_drag_active, timeline_drag_was_playing >>

\* _load_session_into_ui for the session lbl with the annotations recs.
load_session_into_ui(lbl, recs) ==
    LET ids == video_ids(lbl)
        first == ids[1]
    IN  /\ label' = lbl
        /\ annotations' = recs
        \* load_videos: clear(), new players, defaults, _prime_first_frame
        /\ pstate' = [v \in SeqToSet(ids) |-> IF v = first THEN "paused" ELSE "stopped"]
        /\ active_views' = << first >>
        /\ time_source' = first
        /\ audio_source' = first
        /\ volume' = set_volumes(SeqToSet(ids), first)
        /\ position' = 0
        /\ slider_max' = duration_for(first)
        /\ slider_value' = 0
        /\ editing_idx' = keep_editing_idx(editing_idx, recs)
        /\ drag_mode' = keep_drag_mode(editing_idx, recs, drag_mode)
        /\ UNCHANGED << edit_start_ms, edit_end_ms >>
        \* _reset_step_flow, _update_enabled_state
        /\ pending' = clear_pending(pending)
        /\ btn' = IdleButtons
        /\ allow_edit' = TRUE
        /\ step_flow_was_playing' = FALSE
        /\ msg' = "none"
        /\ UNCHANGED << has_root, skill_selected, pending_play, user_scrubbing,
                        scrub_was_playing, timeline_drag_active,
                        timeline_drag_was_playing >>

\* _create_new_session_dialog / _commit_new_session: a fresh session "A".
create_new_session ==
    /\ UNCHANGED << stackVars, ioVars, colorVars, gateVars, syncVars >>
    /\ has_root
    /\ disk' = [disk EXCEPT !["A"] = [exists |-> TRUE, recs |-> << >>]]
    /\ load_session_into_ui("A", << >>)

\* _import_existing_session_dialog: a session folder that exists.
import_existing_session(lbl) ==
    /\ UNCHANGED << stackVars, ioVars, colorVars, gateVars, syncVars >>
    /\ has_root
    /\ disk[lbl].exists
    /\ UNCHANGED disk
    /\ load_session_into_ui(lbl, disk[lbl].recs)

\* _finish_session.
finish_session ==
    /\ UNCHANGED << stackVars, ioVars, colorVars, gateVars, syncVars >>
    /\ drag_mode' = keep_drag_mode(editing_idx, << >>, drag_mode)
    /\ UNCHANGED << edit_start_ms, edit_end_ms >>
    /\ is_loaded
    /\ disk' = autosave(disk, label, annotations)
    /\ label' = None
    /\ annotations' = << >>
    /\ pstate' = << >>
    /\ active_views' = << >>
    /\ time_source' = None
    /\ audio_source' = None
    /\ volume' = << >>
    /\ position' = 0
    /\ slider_max' = 0
    /\ slider_value' = 0
    /\ editing_idx' = NoIdx
    /\ pending' = clear_pending(pending)
    /\ btn' = [IdleButtons EXCEPT !.start = FALSE]
    /\ allow_edit' = TRUE
    /\ step_flow_was_playing' = FALSE
    /\ msg' = "Session finished"
    /\ UNCHANGED << has_root, skill_selected, pending_play, user_scrubbing,
                    scrub_was_playing, timeline_drag_active,
                    timeline_drag_was_playing >>

\* _on_skill_selected(step).
on_skill_selected(s) ==
    /\ UNCHANGED partVars
    /\ skill_selected' = s
    /\ msg' = "none"
    /\ UNCHANGED << has_root, label, disk, annotations, active_views,
                    time_source, audio_source, volume, pstate, pending_play, position,
                    slider_value, slider_max, user_scrubbing, scrub_was_playing,
                    pending, step_flow_was_playing, btn, allow_edit, editing_idx,
                    timeline_drag_active, timeline_drag_was_playing >>

\* ------------------------------------------------------------ step workflow

\* A refusal that comes after the handler has paused playback.
RefusedAfterPause(m) ==
    /\ msg' = m
    /\ pstate' = pause_all(pstate)
    /\ UNCHANGED << has_root, label, disk, annotations, skill_selected,
                    active_views, time_source, audio_source, volume,
                    pending_play, position, slider_value, slider_max,
                    user_scrubbing, scrub_was_playing, pending,
                    step_flow_was_playing, btn, allow_edit, editing_idx,
                    timeline_drag_active, timeline_drag_was_playing >>

\* What every handler that only shows a message box leaves alone.
Refused(m) ==
    /\ msg' = m
    /\ UNCHANGED << has_root, label, disk, annotations, skill_selected,
                    active_views, time_source, audio_source, volume, pstate,
                    pending_play, position, slider_value, slider_max,
                    user_scrubbing, scrub_was_playing, pending,
                    step_flow_was_playing, btn, allow_edit, editing_idx,
                    timeline_drag_active, timeline_drag_was_playing >>

\* is_editing that never reports an edit.
is_editing_never == FALSE

\* _SkillTimelineCanvas.is_editing.
is_editing == editing_idx # NoIdx

\* _start_step, on a click of the enabled Start button.
start_step ==
    /\ UNCHANGED partVars
    /\ btn.start
    /\ IF ~is_loaded THEN Refused("No session")
       ELSE IF skill_selected = NoSkill THEN Refused("No label selected")
       ELSE IF is_editing THEN Refused("Editing active")
       ELSE
         /\ TotalRecords(disk, Labels) < MaxRecords
         /\ Len(annotations) <= MaxRecords
         /\ step_flow_was_playing' = is_playing(pstate, time_source)
         /\ pstate' = pause_all(pstate)
         /\ pending' = [step |-> skill_selected,
                        camid |-> encode_camid_from_active_views(active_views),
                        start_ms |-> NoMs,
                        time_source |-> None,
                        audio_source |-> None,
                        color |-> pending_color_for(skill_selected)]
         /\ btn' = [start |-> FALSE, confirm |-> TRUE, end |-> FALSE, finish |-> FALSE]
         /\ allow_edit' = FALSE
         /\ msg' = "none"
         /\ UNCHANGED << has_root, label, disk, annotations, skill_selected,
                         active_views, time_source, audio_source, volume, pending_play,
                         position, slider_value, slider_max, user_scrubbing,
                         scrub_was_playing, editing_idx, timeline_drag_active,
                         timeline_drag_was_playing >>

\* "not source" that takes only None for unset.
UnsetNoneOnly(src) == src = None

\* "not source" of Python: None and the empty string are falsy.
Unset(src) == src = None \/ src = ""

\* _confirm_start, on a click of the enabled Confirm Start button; needs is
\* what _needs_buffer_gate() answers if playback is resumed.
confirm_start(needs) ==
    /\ UNCHANGED partVars
    /\ btn.confirm
    /\ IF pending.step = NoSkill THEN Refused("none")
       ELSE IF Unset(time_source) \/ Unset(audio_source) THEN Refused("Missing sources")
       ELSE
         LET p == [pending EXCEPT !.start_ms = slider_value,
                                  !.time_source = time_source,
                                  !.audio_source = audio_source]
             g == resume_if_allowed(Grid, step_flow_was_playing,
                                    slider_value, slider_max, needs)
         IN  /\ pending' = p
             /\ btn' = ConfirmedButtons(btn)
             /\ SetGrid(g)
             /\ slider_value' = IF g.pos # position THEN follow(g.pos, slider_max)
                                ELSE slider_value
             /\ allow_edit' = allow_edit_for(p)
             /\ msg' = "none"
             /\ UNCHANGED << has_root, label, disk, annotations, skill_selected,
                             active_views, time_source, audio_source, volume, slider_max,
                             user_scrubbing, scrub_was_playing,
                             step_flow_was_playing, editing_idx,
                             timeline_drag_active, timeline_drag_was_playing >>

\* _end_step, on a click of the enabled End button.
end_step ==
    /\ UNCHANGED partVars
    /\ btn.end
    /\ IF pending.start_ms = NoMs \/ pending.step = NoSkill THEN Refused("No start")
       ELSE
         /\ pstate' = pause_all(pstate)
         /\ btn' = [btn EXCEPT !.end = FALSE, !.finish = TRUE]
         /\ allow_edit' = allow_edit_for(pending)
         /\ msg' = "none"
         /\ UNCHANGED << has_root, label, disk, annotations, skill_selected,
                         active_views, time_source, audio_source, volume, pending_play,
                         position, slider_value, slider_max, user_scrubbing,
                         scrub_was_playing, pending, step_flow_was_playing,
                         editing_idx, timeline_drag_active,
                         timeline_drag_was_playing >>

\* The range guard of _finish_step without its test.
InvalidRangeNever(end_ms, start_ms) == FALSE

\* The range guard of _finish_step.
InvalidRange(end_ms, start_ms) == end_ms < start_ms

\* The guard of _finish_step: an empty camid string is falsy too.
Incomplete(p) ==
    \/ p.start_ms = NoMs
    \/ p.step = NoSkill
    \/ p.camid = NoCamid \/ p.camid = << >>
    \/ Unset(p.time_source)
    \/ Unset(p.audio_source)

\* _finish_step, on a click of the enabled Confirm End button; accepted and
\* conf are the answer of the confidence dialog.
finish_step(accepted, conf, needs) ==
    /\ UNCHANGED partVars
    /\ btn.finish
    /\ IF Incomplete(pending) THEN Refused("Incomplete")
       ELSE IF InvalidRange(slider_value, pending.start_ms) THEN Refused("Invalid range")
       ELSE IF ~accepted THEN Refused("none")
       ELSE
         LET rec == NewRecord(pending, label, slider_value, conf)
             recs == Append(annotations, rec)
             g == resume_if_allowed(Grid, step_flow_was_playing,
                                    slider_value, slider_max, needs)
         IN  /\ annotations' = recs
             /\ disk' = autosave(disk, label, recs)
             /\ pending' = clear_pending(pending)
             /\ btn' = IdleButtons
             /\ allow_edit' = TRUE
             /\ SetGrid(g)
             /\ slider_value' = IF g.pos # position THEN follow(g.pos, slider_max)
                                ELSE slider_value
             /\ step_flow_was_playing' = FALSE
             /\ msg' = autosave_msg(label, "record saved")
             /\ UNCHANGED << has_root, label, skill_selected, active_views,
                             time_source, audio_source, volume, slider_max,
                             user_scrubbing, scrub_was_playing, editing_idx,
                             timeline_drag_active, timeline_drag_was_playing >>

\* ------------------------------------------------------- playback buttons

\* _play.
play(needs) ==
    /\ UNCHANGED partVars
    /\ is_loaded
    /\ ~(slider_max > 0 /\ slider_value >= slider_max)
    /\ LET g == play_all(Grid, needs)
       IN  /\ SetGrid(g)
           /\ slider_value' = IF g.pos # position THEN follow(g.pos, slider_max)
                              ELSE slider_value
    /\ msg' = "none"
    /\ UNCHANGED << has_root, label, disk, annotations, skill_selected,
                    active_views, time_source, audio_source, volume, slider_max,
                    user_scrubbing, scrub_was_playing, pending,
                    step_flow_was_playing, btn, allow_edit, editing_idx,
                    timeline_drag_active, timeline_drag_was_playing >>

\* _pause.
pause ==
    /\ UNCHANGED partVars
    /\ is_loaded
    /\ pstate' = pause_all(pstate)
    /\ msg' = "none"
    /\ UNCHANGED << has_root, label, disk, annotations, skill_selected,
                    active_views, time_source, audio_source, volume, pending_play,
                    position, slider_value, slider_max, user_scrubbing,
                    scrub_was_playing, pending, step_flow_was_playing, btn,
                    allow_edit, editing_idx, timeline_drag_active,
                    timeline_drag_was_playing >>

\* _restart.
restart(needs) ==
    /\ UNCHANGED partVars
    /\ is_loaded
    /\ LET was == is_playing(pstate, time_source)
           g1 == set_position_all([Grid EXCEPT !.ps = pause_all(pstate)], 0, needs)
           g2 == IF was THEN play_all(g1, needs) ELSE g1
       IN  SetGrid(g2)
    /\ slider_value' = 0
    /\ allow_edit' = allow_edit_for(pending)
    /\ editing_idx' = keep_editing_idx(editing_idx, annotations)
    /\ msg' = "none"
    /\ UNCHANGED << has_root, label, disk, annotations, skill_selected,
                    active_views, time_source, audio_source, volume, slider_max,
                    user_scrubbing, scrub_was_playing, pending,
                    step_flow_was_playing, btn, timeline_drag_active,
                    timeline_drag_was_playing >>

\* ------------------------------------------------------------ media events

\* _play_gate_tick with the gate open (the active players ready, or the
\* deadline passed), from the gate timer or a status callback.
play_gate_tick ==
    /\ UNCHANGED partVars
    /\ pending_play
    /\ Players # {}
    /\ LET g == play_every(Grid)
       IN  /\ SetGrid(g)
           /\ slider_value' = IF g.pos # position THEN follow(g.pos, slider_max)
                              ELSE slider_value
    /\ msg' = "none"
    /\ UNCHANGED << has_root, label, disk, annotations, skill_selected,
                    active_views, time_source, audio_source, volume, slider_max,
                    user_scrubbing, scrub_was_playing, pending,
                    step_flow_was_playing, btn, allow_edit, editing_idx,
                    timeline_drag_active, timeline_drag_was_playing >>

\* The time source plays on to the next mark (positionChanged, and at its end
\* mediaStatusChanged(EndOfMedia): _on_media_status stops every player,
\* raises time_source_ended, and runs the gate tick if a play is pending;
\* gate tells whether that tick finds the gate open).
media_advance(gate) ==
    /\ UNCHANGED partVars
    /\ is_playing(pstate, time_source)
    /\ position < duration_for(time_source)
    /\ LET newpos == NextMark(position)
           ended == newpos >= duration_for(time_source)
           g0 == [Grid EXCEPT !.pos = Min(newpos, duration_for(time_source))]
           g1 == IF ended THEN [g0 EXCEPT !.ps = stop_all(pstate)] ELSE g0
           g2 == IF ended /\ pending_play /\ gate THEN play_every(g1) ELSE g1
       IN  /\ SetGrid(g2)
           /\ slider_value' =
                IF ended
                THEN IF g2.pos # g1.pos THEN follow(g2.pos, slider_max) ELSE slider_max
                ELSE follow(g2.pos, slider_max)
    /\ msg' = "none"
    /\ UNCHANGED << has_root, label, disk, annotations, skill_selected,
                    active_views, time_source, audio_source, volume, slider_max,
                    user_scrubbing, scrub_was_playing, pending,
                    step_flow_was_playing, btn, allow_edit, editing_idx,
                    timeline_drag_active, timeline_drag_was_playing >>

\* ------------------------------------------------------------------ slider

\* _on_slider_pressed.
on_slider_pressed ==
    /\ UNCHANGED partVars
    /\ is_loaded
    /\ ~user_scrubbing
    /\ user_scrubbing' = TRUE
    /\ scrub_was_playing' = is_playing(pstate, time_source)
    /\ pstate' = IF is_playing(pstate, time_source) THEN pause_all(pstate) ELSE pstate
    /\ msg' = "none"
    /\ UNCHANGED << has_root, label, disk, annotations, skill_selected,
                    active_views, time_source, audio_source, volume, pending_play,
                    position, slider_value, slider_max, pending,
                    step_flow_was_playing, btn, allow_edit, editing_idx,
                    timeline_drag_active, timeline_drag_was_playing >>

\* _on_slider_moved(pos): the handle is dragged to p.
on_slider_moved(p, needs) ==
    /\ UNCHANGED partVars
    /\ is_loaded
    /\ user_scrubbing
    /\ p <= slider_max
    /\ p # slider_value
    /\ slider_value' = p
    /\ SetGrid(set_position_all(Grid, p, needs))
    /\ allow_edit' = allow_edit_for(pending)
    /\ editing_idx' = keep_editing_idx(editing_idx, annotations)
    /\ msg' = "none"
    /\ UNCHANGED << has_root, label, disk, annotations, skill_selected,
                    active_views, time_source, audio_source, volume, slider_max,
                    user_scrubbing, scrub_was_playing, pending,
                    step_flow_was_playing, btn, timeline_drag_active,
                    timeline_drag_was_playing >>

\* _on_slider_released.
on_slider_released(needs) ==
    /\ UNCHANGED partVars
    /\ user_scrubbing
    /\ user_scrubbing' = FALSE
    /\ scrub_was_playing' = FALSE
    /\ msg' = "none"
    /\ IF ~is_loaded
       THEN UNCHANGED << pstate, pending_play, position, slider_value,
                         allow_edit, editing_idx >>
       ELSE
         LET g1 == set_position_all(Grid, slider_value, needs)
             g2 == resume_if_allowed(g1, scrub_was_playing, slider_value,
                                     slider_max, needs)
         IN  /\ SetGrid(g2)
             /\ slider_value' = IF g2.pos # g1.pos THEN Clamp(g2.pos, slider_max)
                                ELSE slider_value
             /\ allow_edit' = allow_edit_for(pending)
             /\ editing_idx' = keep_editing_idx(editing_idx, annotations)
    /\ UNCHANGED << has_root, label, disk, annotations, skill_selected,
                    active_views, time_source, audio_source, volume, slider_max,
                    pending, step_flow_was_playing, btn, timeline_drag_active,
                    timeline_drag_was_playing >>

\* ----------------------------------------------------------------- sources

\* A time source that is never locked.
time_source_locked_never(p) == FALSE

\* _on_time_source_changed: a step is pending and its start is confirmed.
time_source_locked(p) == p.step # NoSkill /\ p.start_ms # NoMs

\* _on_time_source_changed(vid): the combo lists the loaded videos.
on_time_source_changed(vid) ==
    /\ UNCHANGED partVars
    /\ is_loaded
    /\ vid \in Players
    /\ vid # time_source
    /\ IF vid = "" THEN Refused("none")
       ELSE IF time_source_locked(pending)
       THEN Refused("Time source locked")
       ELSE
         /\ time_source' = vid
         /\ slider_max' = duration_for(vid)
         /\ slider_value' = Clamp(slider_value, duration_for(vid))
         /\ position' = Min(position, duration_for(vid))
         /\ allow_edit' = allow_edit_for(pending)
         /\ editing_idx' = keep_editing_idx(editing_idx, annotations)
         /\ msg' = "none"
         /\ UNCHANGED << has_root, label, disk, annotations, skill_selected,
                         active_views, audio_source, volume, pstate, pending_play,
                         user_scrubbing, scrub_was_playing, pending,
                         step_flow_was_playing, btn, timeline_drag_active,
                         timeline_drag_was_playing >>

\* _on_audio_source_changed(vid).
on_audio_source_changed(vid) ==
    /\ UNCHANGED partVars
    /\ is_loaded
    /\ vid \in Players
    /\ vid # audio_source
    /\ IF vid = "" THEN Refused("none")
       ELSE
         /\ audio_source' = vid
         /\ volume' = set_volumes(Players, vid)
         /\ allow_edit' = allow_edit_for(pending)
         /\ editing_idx' = keep_editing_idx(editing_idx, annotations)
         /\ msg' = "none"
         /\ UNCHANGED << has_root, label, disk, annotations, skill_selected,
                         active_views, time_source, pstate, pending_play,
                         position, slider_value, slider_max, user_scrubbing,
                         scrub_was_playing, pending, step_flow_was_playing, btn,
                         timeline_drag_active, timeline_drag_was_playing >>

\* The id list the views combo reports: the loaded videos that are ticked,
\* in session order.
RECURSIVE Checked(_, _)
Checked(ids, set) ==
    IF ids = << >> THEN << >>
    ELSE LET rest == Checked(SubSeq(ids, 1, Len(ids) - 1), set)
             x == ids[Len(ids)]
         IN  IF x \in set THEN Append(rest, x) ELSE rest

\* _on_active_views_changed(views).
on_active_views_changed(set) ==
    /\ UNCHANGED partVars
    /\ is_loaded
    /\ set \subseteq Players
    /\ Checked(video_ids(label), set) # active_views
    /\ IF set = {} THEN Refused("Selection required")
       ELSE
         /\ active_views' = Checked(video_ids(label), set)
         /\ msg' = "none"
         /\ UNCHANGED << has_root, label, disk, annotations, skill_selected,
                         time_source, audio_source, volume, pstate, pending_play,
                         position, slider_value, slider_max, user_scrubbing,
                         scrub_was_playing, pending, step_flow_was_playing, btn,
                         allow_edit, editing_idx, timeline_drag_active,
                         timeline_drag_was_playing >>

\* ---------------------------------------------------------- timeline edit

\* _on_timeline_drag_end on the grid: playback resumes if the drag paused it.
timeline_drag_end(g, active, was, needs) ==
    IF active /\ was THEN play_all(g, needs) ELSE g

\* _begin_timeline_drag that takes every drag event for the first.
drag_intent_overwritten(active, was, playing) == playing

\* _begin_timeline_drag: the first drag event of a gesture records whether
\* the time source is playing; the later ones keep what was recorded.
drag_intent(active, was, playing) == IF active THEN was ELSE playing

\* _enter_edit_mode(idx), from the Edit button of a block's dialog: emits
\* request_edit (MainWindow refuses while a capture is pending and cancels
\* the edit), then edit_preview_drag(idx, s, e, "right"), which begins a
\* timeline drag and seeks to the record's end.
enter_edit_mode(idx, needs) ==
    /\ UNCHANGED << stackVars, ioVars, colorVars, gateVars, syncVars >>
    /\ is_loaded
    /\ allow_edit
    /\ editing_idx = NoIdx
    /\ idx \in 1..Len(annotations)
    /\ LET refused == ~allow_edit_for(pending)
           g1 == IF refused
                 THEN timeline_drag_end(Grid, timeline_drag_active,
                                        timeline_drag_was_playing, needs)
                 ELSE Grid
           active1 == IF refused THEN FALSE ELSE timeline_drag_active
           was1 == IF refused THEN FALSE ELSE timeline_drag_was_playing
           \* _begin_timeline_drag
           was2 == drag_intent(active1, was1, is_playing(g1.ps, g1.ts))
           g2 == IF ~active1 /\ was2 THEN [g1 EXCEPT !.ps = pause_all(g1.ps)] ELSE g1
           target == Clamp(annotations[idx].end_time, slider_max)
           g3 == set_position_all(g2, target, needs)
       IN  /\ editing_idx' = IF refused THEN NoIdx ELSE idx
           /\ edit_start_ms' = annotations[idx].start_time
           /\ edit_end_ms' = annotations[idx].end_time
           /\ drag_mode' = None
           /\ allow_edit' = IF refused THEN FALSE ELSE allow_edit
           /\ timeline_drag_active' = TRUE
           /\ timeline_drag_was_playing' = was2
           /\ SetGrid(g3)
           /\ slider_value' = target
           /\ msg' = IF refused THEN "Edit disabled" ELSE "none"
    /\ UNCHANGED << has_root, label, disk, annotations, skill_selected,
                    active_views, time_source, audio_source, volume, slider_max,
                    user_scrubbing, scrub_was_playing, pending,
                    step_flow_was_playing, btn >>

\* _on_timeline_drag_end, from the debounce timer.
on_timeline_drag_end(needs) ==
    /\ UNCHANGED partVars
    /\ timeline_drag_active
    /\ timeline_drag_active' = FALSE
    /\ timeline_drag_was_playing' = FALSE
    /\ LET g == timeline_drag_end(Grid, TRUE, timeline_drag_was_playing, needs)
       IN  /\ SetGrid(g)
           /\ slider_value' = IF g.pos # position THEN follow(g.pos, slider_max)
                              ELSE slider_value
    /\ msg' = "none"
    /\ UNCHANGED << has_root, label, disk, annotations, skill_selected,
                    active_views, time_source, audio_source, volume, slider_max,
                    user_scrubbing, scrub_was_playing, pending,
                    step_flow_was_playing, btn, allow_edit, editing_idx >>

\* The commit that takes the two bounds as they come.
commit_bounds_unswapped(start_ms, end_ms) == << start_ms, end_ms >>

\* _on_skill_timeline_edit_commit: inverted bounds are swapped.
commit_bounds(start_ms, end_ms) ==
    IF end_ms < start_ms THEN << end_ms, start_ms >> ELSE << start_ms, end_ms >>

\* A click outside the edited block: exit_editing(commit=True), then
\* _on_skill_timeline_edit_commit(idx, s, e) with the edit's two bounds.
on_skill_timeline_edit_commit(needs) ==
    /\ UNCHANGED << stackVars, ioVars, colorVars, gateVars, syncVars >>
    /\ UNCHANGED << edit_start_ms, edit_end_ms >>
    /\ drag_mode' = None
    /\ editing_idx # NoIdx
    /\ editing_idx <= Len(annotations)
    /\ LET rec == annotations[editing_idx]
           s == commit_bounds(edit_start_ms, edit_end_ms)[1]
           e == commit_bounds(edit_start_ms, edit_end_ms)[2]
           new_rec == recompute_from_times(
                          [rec EXCEPT !.start_time = s, !.end_time = e],
                          fps_for(rec.time_source))
           recs == [annotations EXCEPT ![editing_idx] = new_rec]
           g == timeline_drag_end(Grid, timeline_drag_active,
                                  timeline_drag_was_playing, needs)
       IN  /\ annotations' = recs
           /\ disk' = autosave(disk, label, recs)
           /\ SetGrid(g)
           /\ slider_value' = IF g.pos # position THEN follow(g.pos, slider_max)
                              ELSE slider_value
    /\ editing_idx' = NoIdx
    /\ timeline_drag_active' = FALSE
    /\ timeline_drag_was_playing' = FALSE
    /\ allow_edit' = allow_edit_for(pending)
    /\ msg' = autosave_msg(label, "none")
    /\ UNCHANGED << has_root, label, skill_selected, active_views, time_source,
                    audio_source, volume, slider_max, user_scrubbing, scrub_was_playing,
                    pending, step_flow_was_playing, btn >>

\* _on_skill_timeline_request_delete(idx), from the Delete button of a
\* block's dialog; yes is the answer to the confirmation.
on_skill_timeline_request_delete(idx, yes) ==
    /\ UNCHANGED partVars
    /\ is_loaded
    /\ allow_edit
    /\ editing_idx = NoIdx
    /\ idx \in 1..Len(annotations)
    /\ IF ~allow_edit_for(pending)
       THEN /\ allow_edit' = FALSE
            /\ msg' = "Delete disabled"
            /\ UNCHANGED << annotations, disk >>
       ELSE IF ~yes
       THEN /\ msg' = "none"
            /\ UNCHANGED << annotations, disk, allow_edit >>
       ELSE /\ annotations' = RemoveAt(annotations, idx)
            /\ disk' = autosave(disk, label, RemoveAt(annotations, idx))
            /\ msg' = autosave_msg(label, "record deleted")
            /\ UNCHANGED allow_edit
    /\ UNCHANGED << has_root, label, skill_selected, active_views, time_source,
                    audio_source, volume, pstate, pending_play, position, slider_value,
                    slider_max, user_scrubbing, scrub_was_playing, pending,
                    step_flow_was_playing, btn, editing_idx,
                    timeline_drag_active, timeline_drag_was_playing >>

\* _x_to_ms: the time under the pointer, kept within the timeline; x is the
\* pointer's place already scaled to ms, and a timeline without duration
\* gives 0.
x_to_ms(x, duration_ms) ==
    IF duration_ms <= 0 THEN 0 ELSE Max(0, Min(x, duration_ms))

\* Handles that follow the pointer across each other.
drag_handle_free(mode, new_ms, s, e) ==
    IF mode = "left" THEN << new_ms, e >> ELSE << s, new_ms >>

\* mouseMoveEvent: the left handle stops at the right one and the right
\* handle at the left one.
drag_handle(mode, new_ms, s, e) ==
    IF mode = "left" THEN << Min(new_ms, e), e >>
    ELSE IF mode = "right" THEN << s, Max(new_ms, s) >>
    ELSE << s, e >>

\* A preview that writes the tentative bounds into the record.
preview_records_live(recs, idx, s, e) ==
    [recs EXCEPT ![idx].start_time = s, ![idx].end_time = e]

\* _on_skill_timeline_edit_preview and _on_skill_timeline_edit_preview_drag
\* read the record for its color and write none of its fields.
preview_records(recs, idx, s, e) == recs

\* _on_skill_timeline_edit_preview_drag(idx, s, e, edge): the overlay, the
\* drag gate, and a seek of the slider and the players to the active edge.
on_skill_timeline_edit_preview_drag(idx, s, e, edge, needs) ==
    LET was2 == drag_intent(timeline_drag_active, timeline_drag_was_playing,
                            is_playing(pstate, time_source))
        g2 == IF ~timeline_drag_active /\ was2
              THEN [Grid EXCEPT !.ps = pause_all(pstate)] ELSE Grid
        target == Clamp(IF edge = "left" THEN s ELSE e, slider_max)
    IN  /\ annotations' = preview_records(annotations, idx, s, e)
        /\ timeline_drag_active' = TRUE
        /\ timeline_drag_was_playing' = was2
        /\ SetGrid(set_position_all(g2, target, needs))
        /\ slider_value' = target
        /\ msg' = "none"
        /\ UNCHANGED << has_root, label, disk, skill_selected, active_views,
                        time_source, audio_source, volume, slider_max,
                        user_scrubbing, scrub_was_playing, pending,
                        step_flow_was_playing, btn, allow_edit, editing_idx >>

\* mousePressEvent on a handle of the edited block: the drag starts.
mouse_press_handle(handle, needs) ==
    /\ UNCHANGED << stackVars, ioVars, colorVars, gateVars, syncVars >>
    /\ editing_idx # NoIdx
    /\ editing_idx <= Len(annotations)
    /\ drag_mode = None
    /\ drag_mode' = handle
    /\ UNCHANGED << edit_start_ms, edit_end_ms >>
    /\ on_skill_timeline_edit_preview_drag(editing_idx, edit_start_ms,
                                           edit_end_ms, handle, needs)

\* mouseMoveEvent with a handle held: the pointer is at x.
mouse_move(x, needs) ==
    /\ UNCHANGED << stackVars, ioVars, colorVars, gateVars, syncVars >>
    /\ editing_idx # NoIdx
    /\ editing_idx <= Len(annotations)
    /\ drag_mode # None
    /\ LET b == drag_handle(drag_mode, x_to_ms(x, slider_max),
                            edit_start_ms, edit_end_ms)
       IN  /\ edit_start_ms' = b[1]
           /\ edit_end_ms' = b[2]
           /\ on_skill_timeline_edit_preview_drag(editing_idx, b[1], b[2],
                                                  drag_mode, needs)
    /\ UNCHANGED drag_mode

\* mouseReleaseEvent with a handle held.
mouse_release ==
    /\ UNCHANGED << stackVars, ioVars, colorVars, gateVars, syncVars >>
    /\ drag_mode # None
    /\ drag_mode' = None
    /\ UNCHANGED << edit_start_ms, edit_end_ms >>
    /\ UNCHANGED winVars

\* ---------------------------------------------------------- table edits

\* _apply_edit_to_record assigns the new time to the record before
\* recompute_from_times raises; nothing puts the old value back.
rejected_edit(rec, edited) == edited

\* AnnotationsTable._on_item_changed on the start_time or end_time cell of
\* a row, with the number typed (ms): _apply_edit_to_record, then either
\* the warning, or refresh and annotations_changed, on which MainWindow
\* saves and refreshes the timeline.
table_edit_time(row, field, value) ==
    /\ UNCHANGED partVars
    /\ row \in 1..Len(annotations)
    /\ LET rec == annotations[row]
           edited == IF field = "start_time" THEN [rec EXCEPT !.start_time = value]
                     ELSE [rec EXCEPT !.end_time = value]
       IN  /\ value # (IF field = "start_time" THEN rec.start_time ELSE rec.end_time)
           /\ IF RecomputeFails(edited)
              THEN /\ annotations' =
                        [annotations EXCEPT ![row] = rejected_edit(rec, edited)]
                   /\ msg' = "Invalid value"
                   /\ UNCHANGED << disk, allow_edit >>
              ELSE LET recs == [annotations EXCEPT ![row] =
                                   recompute_from_times(edited, fps_for(rec.time_source))]
                   IN  /\ annotations' = recs
                       /\ disk' = autosave(disk, label, recs)
                       /\ allow_edit' = allow_edit_for(pending)
                       /\ msg' = autosave_msg(label, "none")
    /\ UNCHANGED << has_root, label, skill_selected, active_views, time_source,
                    audio_source, volume, pstate, pending_play, position,
                    slider_value, slider_max, user_scrubbing, scrub_was_playing,
                    pending, step_flow_was_playing, btn, editing_idx,
                    timeline_drag_active, timeline_drag_was_playing >>

\* AnnotationsTable.delete_selected_record with the row selected and the
\* question answered Yes, then _on_table_annotations_changed.
delete_selected_record(row) ==
    /\ UNCHANGED << stackVars, ioVars, colorVars, gateVars, syncVars >>
    /\ row \in 1..Len(annotations)
    /\ LET recs == RemoveAt(annotations, row)
       IN  /\ annotations' = recs
           /\ disk' = autosave(disk, label, recs)
           /\ editing_idx' = keep_editing_idx(editing_idx, recs)
           /\ drag_mode' = keep_drag_mode(editing_idx, recs, drag_mode)
    /\ UNCHANGED << edit_start_ms, edit_end_ms >>
    /\ allow_edit' = allow_edit_for(pending)
    /\ msg' = autosave_msg(label, "none")
    /\ UNCHANGED << has_root, label, skill_selected, active_views, time_source,
                    audio_source, volume, pstate, pending_play, position,
                    slider_value, slider_max, user_scrubbing, scrub_was_playing,
                    pending, step_flow_was_playing, btn,
                    timeline_drag_active, timeline_drag_was_playing >>

\* ------------------------------------------------------------ lane stacking

\* The lists of blocks stack_blocks_into_lanes is applied to: n blocks, with
\* the indexes 0..n-1 in any order (annotations_to_blocks_ms numbers the
\* records; a caller may hand the blocks over in any order).
BlockValues ==
    [idx : 0..(MaxBlocks - 1), start_ms : 0..MaxT, end_ms : 0..MaxT]

BlockLists ==
    UNION { { bs \in [1..n -> BlockValues] :
                { bs[i].idx : i \in 1..n } = 0..(n - 1) } : n \in 0..MaxBlocks }

\* timeutils.py:152-158: end < start is swapped.
normalise(b) ==
    IF b.end_ms < b.start_ms
    THEN [b EXCEPT !.start_ms = b.end_ms, !.end_ms = b.start_ms]
    ELSE b

\* A sort by duration alone.
KeyLessByDuration(a, b) ==
    (a.end_ms - a.start_ms) < (b.end_ms - b.start_ms)

\* The sort key (start_ms, end_ms - start_ms), compared as Python compares
\* tuples.
KeyLess(a, b) ==
    \/ a.start_ms < b.start_ms
    \/ /\ a.start_ms = b.start_ms
       /\ (a.end_ms - a.start_ms) < (b.end_ms - b.start_ms)

\* list.sort is stable: a block goes behind every block whose key is not
\* greater than its own.
RECURSIVE InsertStable(_, _)
InsertStable(sorted, b) ==
    IF sorted = << >> THEN << b >>
    ELSE IF KeyLess(b, Head(sorted)) THEN << b >> \o sorted
    ELSE << Head(sorted) >> \o InsertStable(Tail(sorted), b)

RECURSIVE SortStable(_)
SortStable(bs) ==
    IF bs = << >> THEN << >>
    ELSE InsertStable(SortStable(SubSeq(bs, 1, Len(bs) - 1)), bs[Len(bs)])

\* A lane test that counts touching edges as an overlap.
FitsStrict(lane, b) == lane[Len(lane)].end_ms < b.start_ms

\* A lane test that compares the two starts.
FitsByStart(lane, b) == lane[Len(lane)].start_ms <= b.start_ms

\* A lane takes the block when its last block ends at or before the block's
\* start.
Fits(lane, b) == lane[Len(lane)].end_ms <= b.start_ms

\* The loop body of timeutils.py:163-172: the first lane that fits, or a new one.
place(ls, b) ==
    LET fit == { k \in 1..Len(ls) : Fits(ls[k], b) }
    IN  IF fit = {} THEN Append(ls, << b >>)
        ELSE LET k == CHOOSE x \in fit : \A y \in fit : x <= y
             IN  [ls EXCEPT ![k] = Append(ls[k], b)]

RECURSIVE PlaceAll(_, _)
PlaceAll(ls, bs) ==
    IF bs = << >> THEN ls
    ELSE PlaceAll(place(ls, Head(bs)), Tail(bs))

stack_blocks_into_lanes(bs) ==
    IF bs = << >> THEN << >>
    ELSE PlaceAll(<< >>, SortStable([i \in 1..Len(bs) |-> normalise(bs[i])]))

\* The value of lanes before stack_blocks_into_lanes has returned (no result
\* has an empty lane).
NotStacked == << << >> >>

StackInit ==
    /\ WinInit
    /\ ColorIdle
    /\ GateIdle
    /\ EditIdle
    /\ SyncIdle
    /\ IoIdle
    /\ blocks \in BlockLists
    /\ lanes = NotStacked

\* compute_lanes_for_annotations / set_annotations: the lanes of the blocks.
compute_lanes ==
    /\ lanes = NotStacked
    /\ lanes' = stack_blocks_into_lanes(blocks)
    /\ UNCHANGED blocks
    /\ UNCHANGED << winVars, ioVars, colorVars, gateVars, editVars, syncVars >>

StackNext == compute_lanes

StackSpec == StackInit /\ [][StackNext]_vars

\* ----------------------------------------------------- color assignment

\* A caller asks the color of step_no with the root's config.
color_for(step_no) ==
    /\ LET r == get_skill_color_hex(step_no, skill_color_map)
       IN  /\ skill_color_map' = r.map
           /\ color_returned' = r.color
    /\ color_asked' = [step_no |-> step_no, cfg |-> TRUE]
    /\ UNCHANGED << winVars, ioVars, stackVars, gateVars, editVars, syncVars >>

\* A caller asks the color of step_no before a config is set.
color_for_no_cfg(step_no) ==
    /\ color_returned' = get_skill_color_hex_no_cfg(step_no)
    /\ color_asked' = [step_no |-> step_no, cfg |-> FALSE]
    /\ UNCHANGED skill_color_map
    /\ UNCHANGED << winVars, ioVars, stackVars, gateVars, editVars, syncVars >>

ColorInit ==
    /\ WinInit
    /\ blocks = << >>
    /\ lanes = << >>
    /\ ColorIdle
    /\ GateIdle
    /\ EditIdle
    /\ SyncIdle
    /\ IoIdle

ColorNext ==
    \/ \E s \in AskChoices : color_for(s)
    \/ \E s \in AskChoices \cap ({NoSkill} \cup Probes) : color_for_no_cfg(s)

ColorSpec == ColorInit /\ [][ColorNext]_vars

\* ----------------------------------------------------------- specification

\* The confidence value the dialog's slider is left at in the model.
Confidences == {10}

\* The sets of views the user ticks in the model.
ViewChoices == { {}, {"video-1"}, {"video-1", "video-2"}, {""} }

\* Sessions and the step workflow.
Workflow(Needs, Selectable) ==
    \/ set_root_dir
    \/ create_new_session
    \/ \E lbl \in Labels : import_existing_session(lbl)
    \/ finish_session
    \/ \E s \in Selectable : on_skill_selected(s)
    \/ start_step
    \/ \E needs \in Needs : confirm_start(needs)
    \/ end_step
    \/ \E accepted \in BOOLEAN, conf \in Confidences, needs \in Needs :
           finish_step(accepted, conf, needs)

Playback ==
    \/ \E needs \in BOOLEAN : play(needs)
    \/ pause
    \/ \E needs \in BOOLEAN : restart(needs)
    \/ play_gate_tick
    \/ \E gate \in BOOLEAN : media_advance(gate)

Scrub ==
    \/ on_slider_pressed
    \/ \E p \in SliderPositions, needs \in BOOLEAN : on_slider_moved(p, needs)
    \/ \E needs \in BOOLEAN : on_slider_released(needs)

TimelineEdit ==
    \/ \E idx \in 1..MaxRecords, needs \in BOOLEAN : enter_edit_mode(idx, needs)
    \/ \E needs \in BOOLEAN : on_timeline_drag_end(needs)
    \/ \E needs \in BOOLEAN : on_skill_timeline_edit_commit(needs)
    \/ \E idx \in 1..MaxRecords, yes \in BOOLEAN :
           on_skill_timeline_request_delete(idx, yes)

Selections ==
    \/ \E vid \in AllVideoIds : on_audio_source_changed(vid)
    \/ \E set \in ViewChoices : on_active_views_changed(set)

Init ==
    /\ WinInit
    /\ blocks = << >>
    /\ lanes = << >>
    /\ ColorIdle
    /\ GateIdle
    /\ EditIdle
    /\ SyncIdle
    /\ IoIdle

\* The capture workflow of one category with playback, scrubbing, the
\* time-source selector and timeline editing.
Next ==
    \/ Workflow(BOOLEAN, {1})
    \/ Playback
    \/ Scrub
    \/ \E vid \in AllVideoIds : on_time_source_changed(vid)
    \/ TimelineEdit

Spec == Init /\ [][Next]_vars

\* Where the pointer is put on the timeline canvas, scaled to ms: on the
\* marks, and left of the canvas.
PointerPositions == { Mark(k) : k \in 1..MaxPos } \cup { 0 - FirstMark }

\* The numbers typed into a start_time or end_time cell, in ms.
TableTimes == { Mark(k) : k \in 1..MaxPos } \cup { 0 - FirstMark }

Handles == { "left", "right" }

\* Captures without the buffer gate, playback, the time-source selector,
\* the timeline's edit mode with its handle drags, and the table's edits of
\* the two times.
EditNext ==
    \/ set_root_dir
    \/ create_new_session
    \/ on_skill_selected(1)
    \/ start_step
    \/ confirm_start(FALSE)
    \/ end_step
    \/ \E conf \in Confidences : finish_step(TRUE, conf, FALSE)
    \/ play(FALSE)
    \/ \E vid \in AllVideoIds : on_time_source_changed(vid)
    \/ \E idx \in 1..MaxRecords : enter_edit_mode(idx, FALSE)
    \/ \E handle \in Handles : mouse_press_handle(handle, FALSE)
    \/ \E x \in PointerPositions : mouse_move(x, FALSE)
    \/ mouse_release
    \/ on_timeline_drag_end(FALSE)
    \/ on_skill_timeline_edit_commit(FALSE)
    \/ \E row \in 1..MaxRecords, field \in { "start_time", "end_time" },
          value \in TableTimes : table_edit_time(row, field, value)
    \/ \E row \in 1..MaxRecords : delete_selected_record(row)

EditSpec == Init /\ [][EditNext]_vars

\* The session folder stops being writable (a full disk, a folder made
\* read-only or removed): from then on persist_session_state raises inside
\* _autosave_session.
disk_fault ==
    /\ disk_writable
    /\ disk_writable' = FALSE
    /\ UNCHANGED << winVars, stackVars, colorVars, gateVars, editVars, syncVars >>

\* Records the session can hold in memory: one more than the files hold,
\* kept after a failed autosave.
MaxKept == MaxRecords + 1

\* Captures, playback, scrubbing, timeline edits and deletions over a
\* session folder that can stop being writable.
SaveNext ==
    \/ set_root_dir
    \/ create_new_session
    \/ on_skill_selected(1)
    \/ start_step
    \/ confirm_start(FALSE)
    \/ end_step
    \/ \E conf \in Confidences : finish_step(TRUE, conf, FALSE)
    \/ disk_fault
    \/ play(FALSE)
    \/ on_slider_pressed
    \/ \E p \in SliderPositions : on_slider_moved(p, FALSE)
    \/ on_slider_released(FALSE)
    \/ \E idx \in 1..MaxKept : enter_edit_mode(idx, FALSE)
    \/ on_timeline_drag_end(FALSE)
    \/ on_skill_timeline_edit_commit(FALSE)
    \/ \E idx \in 1..MaxKept : on_skill_timeline_request_delete(idx, TRUE)
    \/ \E row \in 1..MaxKept : delete_selected_record(row)

SaveSpec == Init /\ [][SaveNext]_vars

\* The capture workflow of two categories with the view and audio-source
\* selectors and scrubbing, on a grid that is never asked to play.
SelNext ==
    \/ Workflow({FALSE}, Skills)
    \/ Selections
    \/ Scrub
    \/ pause

SelSpec == Init /\ [][SelNext]_vars

\* ---------------------------------------------------- the grid on its own

\* QMediaPlayer.MediaStatus.
MediaStatuses ==
    { "UnknownMediaStatus", "NoMedia", "LoadingMedia", "LoadedMedia",
      "StalledMedia", "BufferingMedia", "BufferedMedia", "EndOfMedia",
      "InvalidMedia" }

\* A gate that also waits for the players without media.
needs_buffer_gate_all_loaded(views, st) ==
    \E vid \in DOMAIN st : st[vid] \notin {"LoadedMedia", "BufferedMedia", "EndOfMedia"}

\* A gate that never waits.
needs_buffer_gate_never(views, st) == FALSE

\* _needs_buffer_gate: a checked player is loading, buffering or stalled, or
\* its status is unknown (which is then not NoMedia).  The players checked
\* are the active views, or all of them when there is no active view.
needs_buffer_gate(views, st) ==
    IF DOMAIN st = {} THEN FALSE
    ELSE LET check_ids == IF views # << >> THEN SeqToSet(views) ELSE DOMAIN st
         IN  \E vid \in check_ids \cap DOMAIN st :
                \/ st[vid] \in {"LoadingMedia", "BufferingMedia", "StalledMedia"}
                \/ st[vid] = "UnknownMediaStatus" /\ st[vid] # "NoMedia"

\* The deadline of a deferred play: a new one, not yet reached.
arm_deadline ==
    /\ pending_play_deadline' = IF pending_play_deadline = 1 THEN 2 ELSE 1
    /\ deadline_elapsed' = FALSE

\* What a grid method leaves alone of the window.
gridKeeps == << has_root, disk, annotations, skill_selected, slider_value,
                slider_max, user_scrubbing, scrub_was_playing, pending,
                step_flow_was_playing, btn, allow_edit, editing_idx,
                timeline_drag_active, timeline_drag_was_playing, msg,
                edit_start_ms, edit_end_ms, drag_mode >>

\* _play_gate_tick issues play(): a play is pending and the gate is open or
\* the deadline is reached.
gate_tick_plays(g, st, elapsed) ==
    g.pp /\ (~needs_buffer_gate(active_views, st) \/ elapsed)

\* _play_gate_tick on the grid g with the statuses st: play once the gate is
\* open or the deadline is reached.
gate_tick(g, st, elapsed) ==
    IF ~g.pp THEN g
    ELSE IF ~needs_buffer_gate(active_views, st) \/ elapsed THEN play_every(g)
    ELSE g

\* _update_black_cells(master_pos_ms): the cell of an active view shows the
\* placeholder exactly if its player's duration is > 0 and the master
\* position is beyond it; the other cells are left as they are.
update_black_cells(black, views, dur, master_pos) ==
    [v \in DOMAIN black |->
        IF v \in SeqToSet(views) THEN dur[v] > 0 /\ master_pos > dur[v]
        ELSE black[v]]

\* A seek that reaches the active views only.
seek_active_only(ps, ms) ==
    [v \in DOMAIN ps |-> IF v \in SeqToSet(active_views) THEN Max(0, ms)
                         ELSE player_pos[v]]

\* The loop of set_position_all: setPosition(max(0, position_ms)) on every
\* player.
seek_every(ps, ms) == [v \in DOMAIN ps |-> Max(0, ms)]

\* VideoGrid.play_all().
grid_play_all ==
    /\ Players # {}
    /\ LET needs == needs_buffer_gate(active_views, media_status)
       IN  /\ SetGrid(request_play_with_buffer_gate(Grid, needs))
           /\ IF needs THEN arm_deadline
              ELSE UNCHANGED << pending_play_deadline, deadline_elapsed >>
    /\ UNCHANGED << label, active_views, time_source, audio_source, volume,
                    media_status, player_pos >>
    /\ UNCHANGED << gridKeeps, stackVars, ioVars, colorVars, syncVars >>

\* VideoGrid.pause_all().
grid_pause_all ==
    /\ Players # {}
    /\ pstate' = pause_all(pstate)
    /\ UNCHANGED << label, active_views, time_source, audio_source, volume,
                    pending_play, position >>
    /\ UNCHANGED << gridKeeps, stackVars, ioVars, colorVars, gateVars, syncVars >>

\* VideoGrid.set_position_all(ms).
grid_set_position_all(ms) ==
    /\ Players # {}
    /\ LET needs == needs_buffer_gate(active_views, media_status)
           was == is_playing(pstate, time_source)
       IN  /\ SetGrid(set_position_all(Grid, ms, needs))
           /\ IF was /\ needs THEN arm_deadline
              ELSE UNCHANGED << pending_play_deadline, deadline_elapsed >>
    /\ player_pos' = seek_every(pstate, ms)
    /\ cell_black' = update_black_cells(cell_black, active_views, player_dur,
                                        position')
    /\ UNCHANGED << label, active_views, time_source, audio_source, volume,
                    media_status, player_dur, ended_events >>
    /\ UNCHANGED << gridKeeps, stackVars, ioVars, colorVars >>

\* set_active_views that takes the list as it comes.
filter_views_unchecked(ids, players) == ids

\* The ids of a list that are loaded, in the order given; with none left,
\* the first player.
RECURSIVE filter_views(_, _)
filter_views(ids, players) ==
    IF ids = << >> THEN << >>
    ELSE LET rest == filter_views(Tail(ids), players)
         IN  IF Head(ids) \in players THEN << Head(ids) >> \o rest ELSE rest

\* VideoGrid.set_active_views(video_ids).
grid_set_active_views(ids) ==
    /\ LET kept == filter_views(ids, Players)
       IN  active_views' = IF kept = << >> /\ Players # {}
                           THEN << video_ids(label)[1] >>
                           ELSE kept
    /\ cell_black' = update_black_cells(cell_black, active_views', player_dur,
                                        position)
    /\ UNCHANGED << label, time_source, audio_source, volume, pstate,
                    pending_play, position, player_dur, ended_events >>
    /\ UNCHANGED << gridKeeps, stackVars, ioVars, colorVars, gateVars >>

\* A test that takes every id for a loaded one.
is_loaded_id_any(vid, players) == TRUE

\* video_id in self._players.
is_loaded_id(vid, players) == vid \in players

\* VideoGrid.set_time_source(video_id): an id that is not loaded is ignored.
grid_set_time_source(vid) ==
    /\ IF ~is_loaded_id(vid, Players)
       THEN UNCHANGED << time_source, position, cell_black >>
       ELSE /\ time_source' = vid
            /\ position' = Min(position, duration_for(vid))
            /\ cell_black' = update_black_cells(cell_black, active_views,
                                                player_dur, position')
    /\ UNCHANGED << label, active_views, audio_source, volume, pstate,
                    pending_play, player_dur, ended_events >>
    /\ UNCHANGED << gridKeeps, stackVars, ioVars, colorVars, gateVars >>

\* VideoGrid.set_audio_source(video_id): an id that is not loaded is ignored.
grid_set_audio_source(vid) ==
    /\ IF ~is_loaded_id(vid, Players) THEN UNCHANGED << audio_source, volume >>
       ELSE /\ audio_source' = vid
            /\ volume' = set_volumes(Players, vid)
    /\ UNCHANGED << label, active_views, time_source, pstate, pending_play,
                    position >>
    /\ UNCHANGED << gridKeeps, stackVars, ioVars, colorVars, gateVars, syncVars >>

\* VideoGrid.clear(): the players go; the pending play and its deadline stay.
grid_clear ==
    /\ label' = None
    /\ active_views' = << >>
    /\ time_source' = None
    /\ audio_source' = None
    /\ volume' = << >>
    /\ pstate' = << >>
    /\ media_status' = << >>
    /\ player_pos' = << >>
    /\ player_dur' = << >>
    /\ cell_black' = << >>
    /\ position' = 0
    /\ UNCHANGED << pending_play, pending_play_deadline, deadline_elapsed,
                    ended_events >>
    /\ UNCHANGED << gridKeeps, stackVars, ioVars, colorVars >>

\* VideoGrid.load_videos(session_dir, videos) with the videos of session
\* lbl; missing are the videos whose file is not there.
grid_load_videos(lbl, missing) ==
    LET ids == video_ids(lbl)
        first == ids[1]
    IN  /\ label' = lbl
        /\ media_status' = [v \in SeqToSet(ids) |->
                               IF v \in missing THEN "NoMedia" ELSE "LoadingMedia"]
        /\ active_views' = << first >>
        /\ time_source' = first
        /\ audio_source' = first
        /\ volume' = set_volumes(SeqToSet(ids), first)
        /\ pstate' = [v \in SeqToSet(ids) |-> IF v = first THEN "paused" ELSE "stopped"]
        /\ player_pos' = [v \in SeqToSet(ids) |-> 0]
        /\ player_dur' = [v \in SeqToSet(ids) |-> 0]
        /\ cell_black' = [v \in SeqToSet(ids) |-> FALSE]
        /\ position' = 0
        /\ UNCHANGED << pending_play, pending_play_deadline, deadline_elapsed,
                        ended_events >>
        /\ UNCHANGED << gridKeeps, stackVars, ioVars, colorVars >>

\* time_source_ended.emit().
raise_ended(n) == 1 - n

\* _on_media_status(vid, status): the time source at its end stops every
\* player and raises time_source_ended; a pending play is looked at again.
\* A QMediaPlayer that reaches EndOfMedia has left PlayingState by itself.
grid_on_media_status(vid, status) ==
    /\ vid \in Players
    /\ status # media_status[vid]
    /\ LET st == [media_status EXCEPT ![vid] = status]
           ends == time_source = vid /\ status = "EndOfMedia"
           g0 == IF status = "EndOfMedia" /\ pstate[vid] = "playing"
                 THEN [Grid EXCEPT !.ps[vid] = "stopped"] ELSE Grid
           g1 == IF ends THEN [g0 EXCEPT !.ps = stop_all(pstate)] ELSE g0
       IN  /\ media_status' = st
           /\ ended_events' = IF ends THEN raise_ended(ended_events)
                              ELSE ended_events
           /\ SetGrid(gate_tick(g1, st, deadline_elapsed))
    /\ UNCHANGED << label, active_views, time_source, audio_source, volume,
                    player_pos, pending_play_deadline, deadline_elapsed,
                    player_dur, cell_black >>
    /\ UNCHANGED << gridKeeps, stackVars, ioVars, colorVars >>

\* _play_gate_tick, from the gate timer or from _on_buffer_status.
grid_play_gate_tick ==
    /\ pending_play
    /\ SetGrid(gate_tick(Grid, media_status, deadline_elapsed))
    /\ UNCHANGED << label, active_views, time_source, audio_source, volume >>
    /\ UNCHANGED << gridKeeps, stackVars, ioVars, colorVars, gateVars, syncVars >>

\* _on_any_duration_changed, on durationChanged of the player vid, which
\* now knows its duration: time_duration_changed is emitted with the time
\* source's duration, and the cells are left as they are.
on_any_duration_changed(vid) ==
    /\ vid \in Players
    /\ time_source \in Players
    /\ player_dur[vid] = 0
    /\ duration_for(vid) > 0
    /\ player_dur' = [player_dur EXCEPT ![vid] = duration_for(vid)]
    /\ UNCHANGED << cell_black, ended_events >>
    /\ UNCHANGED << label, active_views, time_source, audio_source, volume,
                    pstate, pending_play, position >>
    /\ UNCHANGED << gridKeeps, stackVars, ioVars, colorVars, gateVars >>

\* _on_any_position_changed, on positionChanged of the time source, which
\* has played on to p or has gone back to 0 on stop(): the new position is
\* broadcast and the cells are masked for it.
on_any_position_changed(p) ==
    /\ time_source \in Players
    /\ p # position
    /\ \/ pstate[time_source] = "playing" /\ p > position
                                            /\ p <= duration_for(time_source)
       \/ pstate[time_source] = "stopped" /\ p = 0
    /\ position' = p
    /\ cell_black' = update_black_cells(cell_black, active_views, player_dur, p)
    /\ UNCHANGED << player_dur, ended_events >>
    /\ UNCHANGED << label, active_views, time_source, audio_source, volume,
                    pstate, pending_play >>
    /\ UNCHANGED << gridKeeps, stackVars, ioVars, colorVars, gateVars >>

\* _sync_tick: the time source stands at or beyond its duration.
master_at_end(target, mdur) == mdur > 0 /\ target >= mdur

\* A drift test that takes 200 ms itself for drift.
drifted_at_200(pos, target) ==
    (IF pos >= target THEN pos - target ELSE target - pos) >= 200

\* _sync_tick: more than 200 ms between a player and the time source.
drifted(pos, target) ==
    (IF pos >= target THEN pos - target ELSE target - pos) > 200

\* _sync_tick as a function of what it changes: the states and positions of
\* the players, the placeholders and the ended events raised, with the
\* commands it issues.  It returns at once unless the time source plays; at
\* the end of the time source every player is stopped and
\* time_source_ended is raised; before it the players that have drifted
\* are set to its position and played if they do not play, and the cells
\* are masked for that position.
sync_tick_result(ps, ppos, black, ended) ==
    IF time_source \notin DOMAIN ps \/ ps[time_source] # "playing"
    THEN [ps |-> ps, ppos |-> ppos, black |-> black, ended |-> ended,
          issued |-> {}]
    ELSE IF master_at_end(position, player_dur[time_source])
    THEN [ps |-> stop_all(ps), ppos |-> ppos, black |-> black,
          ended |-> raise_ended(ended), issued |-> {"stop", "ended"}]
    ELSE LET late == { v \in DOMAIN ps \ {time_source} :
                          drifted(ppos[v], position) }
         IN  [ps |-> [v \in DOMAIN ps |->
                         IF v \in late THEN "playing" ELSE ps[v]],
              ppos |-> [v \in DOMAIN ps |->
                           IF v \in late THEN position ELSE ppos[v]],
              black |-> update_black_cells(black, active_views, player_dur,
                                           position),
              ended |-> ended,
              issued |-> (IF late # {} THEN {"seek"} ELSE {})
                         \cup (IF \E v \in late : ps[v] # "playing"
                               THEN {"play"} ELSE {})]

\* _sync_tick, every 200 ms, with the time source playing.
sync_tick ==
    /\ time_source \in Players
    /\ pstate[time_source] = "playing"
    /\ LET r == sync_tick_result(pstate, player_pos, cell_black, ended_events)
       IN  /\ pstate' = r.ps
           /\ player_pos' = r.ppos
           /\ cell_black' = r.black
           /\ ended_events' = r.ended
    /\ UNCHANGED << label, active_views, time_source, audio_source, volume,
                    pending_play, position, player_dur, media_status,
                    pending_play_deadline, deadline_elapsed >>
    /\ UNCHANGED << gridKeeps, stackVars, ioVars, colorVars >>

\* The clock reaches the deadline of the pending play.
deadline_elapses ==
    /\ pending_play
    /\ ~deadline_elapsed
    /\ deadline_elapsed' = TRUE
    /\ UNCHANGED << media_status, player_pos, pending_play_deadline >>
    /\ UNCHANGED << winVars, ioVars, stackVars, colorVars, editVars, syncVars >>

\* The lists handed to set_active_views and the positions handed to
\* set_position_all.
ViewRequests ==
    { << >>, << "video-1" >>, << "video-2" >>, << "video-2", "video-1" >>,
      << "", "video-2" >> }

SeekRequests == { NoMs, Mark(0), Mark(1) }

\* The calls that load the grid and move its players.
GridCalls ==
    \/ \E lbl \in Labels : \E missing \in SUBSET SeqToSet(video_ids(lbl)) :
          grid_load_videos(lbl, missing)
    \/ grid_play_all
    \/ grid_pause_all
    \/ \E ms \in SeekRequests : grid_set_position_all(ms)
    \/ \E ids \in ViewRequests : grid_set_active_views(ids)

GridNext ==
    \/ GridCalls
    \/ grid_clear
    \/ \E vid \in AllVideoIds \cup {None} : grid_set_time_source(vid)
    \/ \E vid \in AllVideoIds \cup {None} : grid_set_audio_source(vid)
    \/ \E vid \in AllVideoIds : grid_on_media_status(vid, "LoadedMedia")
    \/ grid_play_gate_tick
    \/ deadline_elapses
    \/ \E set \in ViewChoices : on_active_views_changed(set)

\* The grid under the calls of its methods and the window's views selector,
\* with players that finish loading.
GridSpec == Init /\ [][GridNext]_vars

GateNext ==
    \/ GridCalls
    \/ \E vid \in AllVideoIds : \E status \in MediaStatuses :
          grid_on_media_status(vid, status)
    \/ grid_play_gate_tick
    \/ deadline_elapses

\* The play gate: the grid with players of every media status, its roles
\* left at their defaults.
GateSpec == Init /\ [][GateNext]_vars

\* The gate timer keeps ticking and the clock keeps running.
FairGateSpec ==
    GateSpec /\ WF_vars(grid_play_gate_tick) /\ WF_vars(deadline_elapses)

\* The positions the time source of session "C" is seen at (200 ms is the
\* largest drift _sync_tick lets be), and the views asked for.
SyncPositions == { 0, 200, 9000, duration_for("cam-3") }

SyncSeeks == { 9000 }

SyncViewRequests == { << "cam-1", "cam-2", "cam-3" >> }

\* The streams that report their end: the time source asked for and one
\* other stream.
SyncStatusIds == { "cam-2", "cam-3" }

SyncNext ==
    \/ grid_load_videos("C", {})
    \/ \E vid \in SeqToSet(video_ids("C")) : on_any_duration_changed(vid)
    \/ \E vid \in SeqToSet(video_ids("C")) : grid_on_media_status(vid, "LoadedMedia")
    \/ \E vid \in SyncStatusIds : grid_on_media_status(vid, "EndOfMedia")
    \/ grid_play_all
    \/ \E ms \in SyncSeeks : grid_set_position_all(ms)
    \/ \E ids \in SyncViewRequests : grid_set_active_views(ids)
    \/ grid_set_time_source("cam-3")
    \/ \E p \in SyncPositions : on_any_position_changed(p)
    \/ sync_tick

\* The grid with the three streams of session "C": durations that arrive,
\* statuses, seeks, playback of the time source and the sync timer.
SyncSpec == Init /\ [][SyncNext]_vars

\* The positions the time source of session "A" is seen at.
TickPositions == { 200, Mark(1), Mark(MaxPos) }

TickNext ==
    \/ grid_load_videos("A", {})
    \/ \E vid \in SeqToSet(video_ids("A")) : on_any_duration_changed(vid)
    \/ \E vid \in SeqToSet(video_ids("A")) :
          \E status \in {"LoadedMedia", "BufferingMedia", "EndOfMedia"} :
             grid_on_media_status(vid, status)
    \/ grid_play_all
    \/ grid_pause_all
    \/ grid_set_position_all(Mark(1))
    \/ \E p \in TickPositions : on_any_position_changed(p)
    \/ sync_tick
    \/ grid_play_gate_tick
    \/ deadline_elapses

\* The two timers of the grid over the two streams of session "A": the
\* reconciliation tick and the tick of the buffering gate, with streams
\* that load, buffer and end.
TickSpec == Init /\ [][TickNext]_vars

\* ------------------------------------------------------------------ phases

\* The state of the capture workflow, read from the pending fields and the
\* step buttons.
Phase ==
    IF pending.step = NoSkill THEN "Idle"
    ELSE IF pending.start_ms = NoMs THEN "AwaitingStart"
    ELSE IF btn.end THEN "AwaitingEnd"
    ELSE "AwaitingConfirmEnd"

\* Everything of the window but the message shown.
quiet == << has_root, label, disk, annotations, skill_selected, active_views,
            time_source, audio_source, volume, pstate, pending_play, position,
            slider_value, slider_max, user_scrubbing, scrub_was_playing,
            pending, step_flow_was_playing, btn, allow_edit, editing_idx,
            timeline_drag_active, timeline_drag_was_playing >>

\* F is Python's round(n / d): nearest, and the even one of two nearest.
IsRound(F, n, d) ==
    LET diff == IF n >= F * d THEN n - F * d ELSE F * d - n
    IN  /\ 2 * diff <= d
        /\ (2 * diff = d => F % 2 = 0)

\* A step of _finish_step that saves a record.
Emits == \E conf \in Confidences, needs \in BOOLEAN : finish_step(TRUE, conf, needs)

\* ------------------------------------------------------------------ claims

\* C1: a completed capture; confirm_start() locks the slider position s and
\* the time source, and a finish() at slider position e >= s appends exactly
\* one record with start_time = s, end_time = e (ms), start_frame =
\* round(s/1000 * f), end_frame = round(e/1000 * f) for the frame rate f of
\* the locked time source, total_frames = max(end_frame - start_frame, 0)
\* and total_time = e - s.
C1_ConfirmLocks ==
    (\E needs \in BOOLEAN : confirm_start(needs)) /\ msg' = "none" /\ pending.step # NoSkill
        => /\ pending'.start_ms = slider_value
           /\ pending'.time_source = time_source

C1_FinishRecord ==
    Emits /\ msg' = "record saved"
        => LET s == pending.start_ms
               e == slider_value
               f == fps_for(pending.time_source)
               r == annotations'[Len(annotations')]
           IN  /\ e >= s
               /\ annotations' = Append(annotations, r)
               /\ r.start_time = s
               /\ r.end_time = e
               /\ IsRound(r.start_frame, s * f, 1000000)
               /\ IsRound(r.end_frame, e * f, 1000000)
               /\ r.total_frames = Max(r.end_frame - r.start_frame, 0)
               /\ r.total_time = e - s
               /\ r.time_source = pending.time_source

C3_Kept == UNCHANGED << pending, annotations, disk >>

C4_StartRefused ==
    [][ /\ (start_step /\ is_loaded /\ skill_selected = NoSkill)
            => (msg' = "No label selected" /\ UNCHANGED quiet)
        /\ (start_step /\ is_loaded /\ skill_selected # NoSkill /\ editing_idx # NoIdx)
            => (msg' = "Editing active" /\ UNCHANGED quiet) ]_vars

\* C4's case: start() has just been refused during a timeline edit, with
\* playback running on.
C4_Witness ==
    /\ msg = "Editing active"
    /\ editing_idx # NoIdx
    /\ skill_selected # NoSkill
    /\ btn.start
    /\ is_playing(pstate, time_source)
    /\ Phase = "Idle"

\* C5: confirm_start() in AwaitingStart with the time source or the audio
\* source unset is refused with "Missing sources": the state stays
\* AwaitingStart, the start time and the locked sources stay unset and
\* playback is not resumed.
C5_MissingSources ==
    [][ (/\ \E needs \in BOOLEAN : confirm_start(needs)
         /\ Phase = "AwaitingStart"
         /\ (time_source \in {None, ""} \/ audio_source \in {None, ""}))
        => /\ msg' = "Missing sources"
           /\ UNCHANGED quiet
           /\ Phase' = "AwaitingStart"
           /\ pending'.start_ms = NoMs
           /\ pending'.time_source = None
           /\ pending'.audio_source = None ]_vars

\* C5's case: confirm_start() has just been refused in a session whose
\* sources are unset.
C5_Witness ==
    /\ msg = "Missing sources"
    /\ Phase = "AwaitingStart"
    /\ time_source \in {None, ""}
    /\ btn.confirm

\* C6: loading a session or finishing the session while a capture is
\* pending clears every pending field, appends no record and restores the
\* Idle enablement: Confirm Start, End and Confirm End disabled, timeline
\* editing allowed.
C6_SessionSwitch ==
    \/ create_new_session
    \/ \E lbl \in Labels : import_existing_session(lbl)
    \/ finish_session

C6_Cancel ==
    [][ (C6_SessionSwitch /\ Phase # "Idle")
        => /\ pending' = NoPending
           /\ Phase' = "Idle"
           /\ ~btn'.confirm /\ ~btn'.end /\ ~btn'.finish
           /\ allow_edit'
           /\ \A l \in Labels : disk'[l].recs = disk[l].recs \/ disk'[l].recs = << >>
           /\ annotations' = IF label' = None THEN << >> ELSE disk'[label'].recs ]_vars

\* C6's case: a capture stands at AwaitingConfirmEnd while the session can
\* be finished and another session can be imported.
C6_Witness ==
    /\ Phase = "AwaitingConfirmEnd"
    /\ label = "A"
    /\ ENABLED finish_session
    /\ ENABLED import_existing_session("B")

\* C7: confirm_start() and finish() issue play only if playback was
\* playing when start() was called and the master position is not at the
\* end of the media; otherwise they leave every stream paused.
C7_Confirmed ==
    /\ \E needs \in BOOLEAN : confirm_start(needs)
    /\ Phase = "AwaitingStart"
    /\ Phase' = "AwaitingEnd"

C7_PlayIssued ==
    \/ Players # {} /\ \A v \in Players : pstate'[v] = "playing"
    \/ pending_play' /\ ~pending_play

C7_Resumable ==
    /\ step_flow_was_playing
    /\ ~is_at_end(position, duration_for(time_source))

C7_Resume ==
    [][ /\ (start_step /\ Phase' = "AwaitingStart" /\ msg' = "none")
            => step_flow_was_playing' = is_playing(pstate, time_source)
        /\ (C7_Confirmed \/ (Emits /\ msg' = "record saved"))
            => /\ C7_PlayIssued => C7_Resumable
               /\ ~C7_Resumable
                    => /\ \A v \in Players : pstate'[v] = "paused"
                       /\ pending_play' = pending_play ]_vars

\* C8: the record carries the category selected at start(), the camera ids
\* of the views active at start() and the audio source selected at
\* confirm_start(); changing the selections before finish() does not change
\* what the record gets.
C8_Captured ==
    [][ /\ (start_step /\ Phase' = "AwaitingStart" /\ msg' = "none")
            => /\ pending'.step = skill_selected
               /\ pending'.camid = encode_camid_from_active_views(active_views)
        /\ (C7_Confirmed /\ msg' = "none") => pending'.audio_source = audio_source
        /\ (Phase # "Idle" /\ Phase' # "Idle" /\ ~start_step)
            => /\ pending'.step = pending.step
               /\ pending'.camid = pending.camid
        /\ (Phase \in {"AwaitingEnd", "AwaitingConfirmEnd"}
              /\ Phase' \in {"AwaitingEnd", "AwaitingConfirmEnd"})
            => pending'.audio_source = pending.audio_source
        /\ (Emits /\ msg' = "record saved")
            => LET r == annotations'[Len(annotations')]
               IN  /\ r.step_no = pending.step
                   /\ r.camid = pending.camid
                   /\ r.audio_source = pending.audio_source ]_vars

\* C8's case: a record has just been saved whose category, camera ids and
\* audio source all differ from the selections at finish().
C8_Witness ==
    /\ msg = "record saved"
    /\ Len(annotations) = 1
    /\ annotations[1].step_no # skill_selected
    /\ annotations[1].camid # encode_camid_from_active_views(active_views)
    /\ annotations[1].audio_source # audio_source

\* The lane (1-based) that a stacking gives to the block of index i.
LaneOf(ls, i) ==
    CHOOSE k \in 1..Len(ls) : \E j \in 1..Len(ls[k]) : ls[k][j].idx = i

GenuinelyOverlap(a, b) ==
    LET na == normalise(a)
        nb == normalise(b)
    IN  na.end_ms > nb.start_ms /\ na.start_ms < nb.end_ms

\* C9: for every input of stack_blocks_into_lanes, no two intervals placed
\* in the same lane genuinely overlap (after normalisation, a ends after b
\* starts and a starts before b ends).
C9_NoOverlapInLane ==
    lanes # NotStacked =>
        \A i, j \in 1..Len(blocks) :
            (i # j /\ LaneOf(lanes, blocks[i].idx) = LaneOf(lanes, blocks[j].idx))
                => ~GenuinelyOverlap(blocks[i], blocks[j])

\* C9's case: three blocks, one given with its end before its start, have
\* been stacked into two lanes: two share a lane, two genuinely overlap.
C9_Witness ==
    /\ lanes # NotStacked
    /\ Len(blocks) = 3
    /\ Len(lanes) = 2
    /\ \E i \in 1..3 : blocks[i].end_ms < blocks[i].start_ms
    /\ \E i, j \in 1..3 : i # j /\ GenuinelyOverlap(blocks[i], blocks[j])

\* The reorderings of a list.
Reorderings(bs) ==
    { [i \in 1..Len(bs) |-> bs[f[i]]] :
        f \in { g \in [1..Len(bs) -> 1..Len(bs)] :
                  \A a, b \in 1..Len(bs) : a # b => g[a] # g[b] } }

\* C10: stack_blocks_into_lanes is independent of the input order: for
\* every list of intervals and every permutation of it, each interval index
\* gets the same lane.
C10_OrderIndependent ==
    lanes # NotStacked =>
        \A q \in Reorderings(blocks) :
            \A i \in 1..Len(blocks) :
                LaneOf(stack_blocks_into_lanes(q), blocks[i].idx)
                    = LaneOf(lanes, blocks[i].idx)

\* Blocks i and j of the input touch: after normalisation, i ends where j starts.
Touching(i, j) ==
    i # j /\ normalise(blocks[i]).end_ms = normalise(blocks[j]).start_ms

\* C11 as stated: in every input, two intervals a and b with
\* a.end_ms = b.start_ms are placed in the same lane.
C11_TouchingAlways ==
    lanes # NotStacked =>
        \A i, j \in 1..Len(blocks) :
            Touching(i, j)
                => LaneOf(lanes, blocks[i].idx) = LaneOf(lanes, blocks[j].idx)

\* C11, amended: when the input is just the two intervals a and b, with
\* a.end_ms = b.start_ms after normalisation, both are placed in one lane;
\* and in every input a lane may hold touching intervals, since a block
\* follows another in a lane exactly when that one ends at or before its start.
C11_TouchingPair ==
    lanes # NotStacked =>
        /\ (Len(blocks) = 2 /\ (Touching(1, 2) \/ Touching(2, 1)))
              => Len(lanes) = 1
        /\ \A k \in 1..Len(lanes) : \A n \in 1..(Len(lanes[k]) - 1) :
              lanes[k][n].end_ms <= lanes[k][n + 1].start_ms

\* C11's case: two intervals of positive length, the second given first,
\* touch and have been stacked.
C11_Witness ==
    /\ lanes # NotStacked
    /\ Len(blocks) = 2
    /\ Touching(2, 1)
    /\ blocks[1].start_ms < blocks[1].end_ms
    /\ blocks[2].start_ms < blocks[2].end_ms
    /\ Len(lanes) = 1

\* A call of get_skill_color_hex has been made.
ColorCalled == color_returned # None

\* C12: color_for is stable: two calls in a row with the same category
\* number (and the same choice of config) return the same color, and no
\* call, for whatever category, changes the palette index of a category
\* that is already in the map.
C12_Stable ==
    [][ /\ \A s \in DOMAIN skill_color_map :
              /\ s \in DOMAIN skill_color_map'
              /\ skill_color_map'[s] = skill_color_map[s]
        /\ (ColorCalled /\ color_asked' = color_asked)
              => color_returned' = color_returned ]_vars

\* C12's case: with every category in the map (category 1 went in before
\* category 2 did), the color of category 1 has been asked again and is
\* the one of its index.
C12_Witness ==
    /\ DOMAIN skill_color_map = StepNos
    /\ color_asked = [step_no |-> 1, cfg |-> TRUE]
    /\ color_returned = SKILL_COLOR_PALETTE_50[skill_color_map[1] + 1]

\* C13: from an empty map, each of the first 50 distinct categories gets,
\* on first use, the lowest palette index in 0..49 not yet in the map (so
\* the first 50 categories get 50 different palette colors); every later
\* category gets an index >= 50 that no other category holds.
C13_FirstUse ==
    [][ \A s \in DOMAIN skill_color_map' \ DOMAIN skill_color_map :
          LET held == { skill_color_map[t] : t \in DOMAIN skill_color_map }
              idx == skill_color_map'[s]
          IN  /\ idx \notin held
              /\ IF Cardinality(DOMAIN skill_color_map) < 50
                 THEN /\ idx \in 0..49
                      /\ \A i \in 0..(idx - 1) : i \in held
                      /\ color_returned' = SKILL_COLOR_PALETTE_50[idx + 1]
                      /\ \A t \in DOMAIN skill_color_map :
                            SKILL_COLOR_PALETTE_50[skill_color_map[t] + 1]
                                # color_returned'
                 ELSE idx >= 50 ]_vars

\* C13's case: every category is in the map, the highest category holds a
\* palette index and two categories hold indexes beyond the palette.
C13_Witness ==
    /\ DOMAIN skill_color_map = StepNos
    /\ skill_color_map[palette_n + MaxExtra] < 50
    /\ Cardinality({ s \in StepNos : skill_color_map[s] >= 50 }) >= 2

FirstLoaded == video_ids(label')[1]

\* C15: whenever a stream is loaded, the time source and the audio source
\* each reference a loaded stream; a load makes the first stream both; and
\* set_time_source(id) or set_audio_source(id) with an id that is not
\* loaded changes neither role.
C15_Roles ==
    [][ /\ label' # None
          => /\ time_source' \in SeqToSet(video_ids(label'))
             /\ audio_source' \in SeqToSet(video_ids(label'))
        /\ (\E lbl \in Labels : \E missing \in SUBSET SeqToSet(video_ids(lbl)) :
               grid_load_videos(lbl, missing))
          => /\ time_source' = FirstLoaded
             /\ audio_source' = FirstLoaded
        /\ \A vid \in (AllVideoIds \cup {None}) \ Players :
             (grid_set_time_source(vid) \/ grid_set_audio_source(vid))
               => /\ time_source' = time_source
                  /\ audio_source' = audio_source ]_vars

\* C15's case: in session A, whose first stream is video-1, the two roles
\* have been given to different streams.
C15_Witness ==
    /\ label = "A"
    /\ time_source = "video-2"
    /\ audio_source = "video-1"
    /\ volume["video-1"] = 100

\* C16: whenever streams are loaded, exactly one stream has non-zero audio
\* gain and it is the audio source, with gain 100; every other loaded
\* stream has gain 0.
C16_OneAudible ==
    label # None =>
        /\ { v \in Players : volume[v] # 0 } = { audio_source }
        /\ volume[audio_source] = 100

\* C16's case: the audio source has been moved to the second stream.
C16_Witness ==
    /\ label = "A"
    /\ audio_source = "video-2"
    /\ volume["video-2"] = 100
    /\ volume["video-1"] = 0

\* C17: while streams are loaded the active-view set is non-empty and
\* holds loaded streams only; a request with an empty set (or with no
\* loaded stream in it) leaves the previously active set or the first
\* stream.
C17_Views ==
    [][ /\ label' # None
          => /\ active_views' # << >>
             /\ SeqToSet(active_views') \subseteq SeqToSet(video_ids(label'))
        /\ (label # None
              /\ \/ on_active_views_changed({})
                 \/ \E ids \in ViewRequests :
                       /\ SeqToSet(ids) \cap Players = {}
                       /\ grid_set_active_views(ids))
          => \/ active_views' = active_views
             \/ active_views' = << video_ids(label)[1] >> ]_vars

\* C17's case: the grid shows both streams, the second first, and the
\* window has just refused an empty selection.
C17_Witness ==
    /\ label = "A"
    /\ active_views = << "video-2", "video-1" >>
    /\ msg = "Selection required"

\* C18: play_all(), pause_all() and set_position_all(ms) act on every
\* loaded stream, active view or not: after set_position_all(ms) every
\* loaded stream has been positioned at max(0, ms), after pause_all()
\* every loaded stream is paused, and a play that is issued is issued to
\* every loaded stream.
C18_AllStreams ==
    [][ /\ \A ms \in SeekRequests :
             grid_set_position_all(ms)
               => \A v \in Players : player_pos'[v] = IF ms < 0 THEN 0 ELSE ms
        /\ grid_pause_all => \A v \in Players : pstate'[v] = "paused"
        /\ (grid_play_all /\ ~pending_play')
               => \A v \in Players : pstate'[v] = "playing" ]_vars

\* C18's case: the stream that is not an active view has been sought to
\* 2000 ms and is playing.
C18_Witness ==
    /\ label = "A"
    /\ active_views = << "video-1" >>
    /\ player_pos["video-2"] = 2000
    /\ pstate["video-2"] = "playing"
    /\ ~pending_play

\* An active stream is loading, buffering or stalled, or its status is
\* unknown.
Gating(views, st) ==
    \E v \in SeqToSet(views) \cap DOMAIN st :
        st[v] \in { "LoadingMedia", "BufferingMedia", "StalledMedia",
                    "UnknownMediaStatus" }

\* Every loaded stream is playing after the step.
AllPlaying == \A v \in DOMAIN pstate' : pstate'[v] = "playing"

\* A gate evaluation: the timer's tick or a media status event.
GateEvaluation ==
    \/ grid_play_gate_tick
    \/ \E vid \in AllVideoIds : \E status \in MediaStatuses :
          grid_on_media_status(vid, status)

\* What C19 says of single steps: play_all() behind a closed gate plays
\* nothing and leaves the play pending; a pending play is issued only to
\* all streams and only with the gate open or the deadline reached; no gate
\* evaluation with the gate open or the deadline reached leaves the play
\* pending.
C19_Steps ==
    /\ (grid_play_all /\ Gating(active_views, media_status))
          => pending_play' /\ pstate' = pstate
    /\ (pending_play /\ ~pending_play')
          => /\ AllPlaying
             /\ ~Gating(active_views', media_status') \/ deadline_elapsed
    /\ (GateEvaluation /\ pending_play')
          => Gating(active_views', media_status') /\ ~deadline_elapsed'

\* C19 as stated: the steps above, and with the gate ticking and the clock
\* running a deferred play is eventually issued.
C19_EventuallyIssued ==
    /\ [][C19_Steps]_vars
    /\ pending_play ~> ~pending_play

\* C19, amended: the steps above, and with the gate ticking and the clock
\* running a deferred play is eventually issued unless play is requested
\* again behind a closed gate, which sets a new deadline.
C19_IssuedOrRearmed ==
    /\ [][C19_Steps]_vars
    /\ \A d \in 1..2 :
          (pending_play /\ pending_play_deadline = d)
             ~> (~pending_play \/ pending_play_deadline # d)

\* C19's case: a deferred play has been issued at its deadline, to both
\* streams, while an active stream is still loading.
C19_Witness ==
    /\ label = "A"
    /\ ~pending_play
    /\ deadline_elapsed
    /\ pending_play_deadline # 0
    /\ Gating(active_views, media_status)
    /\ \A v \in Players : pstate[v] = "playing"

\* The statuses of a stream that is ready and of one without loadable
\* media.
ReadyStatuses == { "LoadedMedia", "BufferedMedia", "EndOfMedia" }

BrokenStatuses == { "NoMedia", "InvalidMedia" }

\* C20: play_all() with every active stream either ready or without
\* loadable media plays every stream at once and leaves no play pending,
\* whatever the number of streams without media.
C20_BrokenPass ==
    [][ (grid_play_all
           /\ \A v \in SeqToSet(active_views) :
                 media_status[v] \in ReadyStatuses \cup BrokenStatuses)
          => ~pending_play' /\ AllPlaying ]_vars

\* C20's case: both streams are active views, one of them has no media and
\* the other is loaded, and they play without a deadline ever set.
C20_Witness ==
    /\ label = "A"
    /\ Len(active_views) = 2
    /\ media_status["video-1"] \in BrokenStatuses
    /\ media_status["video-2"] = "LoadedMedia"
    /\ pending_play_deadline = 0
    /\ ~pending_play
    /\ \A v \in Players : pstate[v] = "playing"

\* ------------------------------------------------- claims: edit mode

\* A drag step: mouseMoveEvent with a handle held.
DragStep == \E x \in PointerPositions : mouse_move(x, FALSE)

\* The handle a drag step leaves where it is.
OtherHandle == IF drag_mode = "left" THEN edit_end_ms ELSE edit_start_ms

Within(ms, duration_ms) == 0 <= ms /\ ms <= duration_ms

\* C24 as stated: after every drag step
\* 0 <= edit_start_ms <= edit_end_ms <= timeline duration.
C24_WithinTimeline ==
    [][ DragStep => /\ 0 <= edit_start_ms'
                    /\ edit_start_ms' <= edit_end_ms'
                    /\ edit_end_ms' <= slider_max' ]_vars

\* C24: a drag step moves the held handle only, leaves
\* edit_start_ms <= edit_end_ms, and leaves both within
\* [0, timeline duration] when the handle that is not held was within it.
C24_HandlesOrdered ==
    [][ DragStep =>
          /\ edit_start_ms' <= edit_end_ms'
          /\ (drag_mode = "left" => edit_end_ms' = edit_end_ms)
          /\ (drag_mode = "right" => edit_start_ms' = edit_start_ms)
          /\ (Within(OtherHandle, slider_max) =>
                /\ Within(edit_start_ms', slider_max')
                /\ Within(edit_end_ms', slider_max')) ]_vars

\* C24's case: the left handle has been dragged to the right one and has
\* stopped there, away from the record's start.
C24_Witness ==
    /\ editing_idx # NoIdx
    /\ editing_idx <= Len(annotations)
    /\ drag_mode = "left"
    /\ edit_start_ms = edit_end_ms
    /\ annotations[editing_idx].start_time < edit_start_ms
    /\ annotations[editing_idx].end_time = edit_end_ms

\* The steps of an edit before its commit: entering edit mode (with the
\* cancel of a refused edit), a press on a handle, a drag step, the release
\* and the debounce expiry.
PreviewStep ==
    \/ \E idx \in 1..MaxRecords : enter_edit_mode(idx, FALSE)
    \/ \E handle \in Handles : mouse_press_handle(handle, FALSE)
    \/ DragStep
    \/ mouse_release
    \/ on_timeline_drag_end(FALSE)

\* C25: entering edit mode, every drag preview step and a cancel leave every
\* field of every record unchanged, in the store and in the saved session.
C25_RecordsKept ==
    [][ PreviewStep => annotations' = annotations /\ disk' = disk ]_vars

\* C25's case: a handle is held and both tentative bounds differ from the
\* record's, which still has the bounds it was captured with.
C25_Witness ==
    /\ editing_idx # NoIdx
    /\ editing_idx <= Len(annotations)
    /\ drag_mode # None
    /\ timeline_drag_active
    /\ edit_start_ms # annotations[editing_idx].start_time
    /\ edit_end_ms # annotations[editing_idx].end_time

\* A drag step of the right handle with the pointer at x, left of the left
\* handle.
CrossingStep(x) ==
    /\ drag_mode = "right"
    /\ x_to_ms(x, slider_max) < edit_start_ms
    /\ mouse_move(x, FALSE)

Commit == on_skill_timeline_edit_commit(FALSE)

\* C26 as stated: the right handle dragged across the left one follows the
\* pointer, so that a commit stores the pointer's time as the start and the
\* old start as the end.
C26_CrossingSwapped ==
    [][ \A x \in PointerPositions :
          CrossingStep(x) =>
             commit_bounds(edit_start_ms', edit_end_ms') =
                << x_to_ms(x, slider_max), edit_start_ms >> ]_vars

\* C26: the right handle dragged to the left of the left handle stops on
\* it, and a commit stores the smaller tentative bound as the start and the
\* larger one as the end, neither below 0: the crossing drag is committed
\* as an interval of length 0 at the old start.
C26_CrossingCollapses ==
    /\ [][ \A x \in PointerPositions :
             CrossingStep(x) => /\ edit_start_ms' = edit_start_ms
                                /\ edit_end_ms' = edit_start_ms ]_vars
    /\ [][ Commit =>
             /\ annotations'[editing_idx].start_time =
                   Max(0, Min(edit_start_ms, edit_end_ms))
             /\ annotations'[editing_idx].end_time =
                   Max(0, Max(edit_start_ms, edit_end_ms)) ]_vars

\* C26's case: a record captured with a positive length has been committed
\* with its right handle on its left one.
C26_Witness ==
    /\ Len(annotations) = 1
    /\ editing_idx = NoIdx
    /\ drag_mode = None
    /\ edit_start_ms = Mark(1)
    /\ edit_end_ms = Mark(1)
    /\ annotations[1].start_time = Mark(1)
    /\ annotations[1].end_time = Mark(1)
    /\ annotations[1].total_time = 0
    /\ annotations[1].total_frames = 0

\* ------------------------------------------------ claims: table edits

\* An edit of a start_time or end_time cell.
TableEdit ==
    \E row \in 1..MaxRecords, field \in { "start_time", "end_time" },
       value \in TableTimes : table_edit_time(row, field, value)

\* An edit of a start_time or end_time cell that is answered with the
\* "Invalid value" warning.
RejectedTableEdit == TableEdit /\ msg' = "Invalid value"

\* C27: a table edit of start_time or end_time that would make
\* end_time < start_time is refused and leaves every field of every record
\* as it was, in the store and in the saved session.
C27_RejectedKept ==
    [][ RejectedTableEdit => annotations' = annotations /\ disk' = disk ]_vars

\* The frames and totals of a record agree with its two times at the frame
\* rate of its time source.
TimesAndFramesAgree(r) ==
    LET f == fps_for(r.time_source)
    IN  /\ r.start_time >= 0
        /\ r.end_time >= 0
        /\ IsRound(r.start_frame, r.start_time * f, 1000000)
        /\ IsRound(r.end_frame, r.end_time * f, 1000000)
        /\ r.total_time = r.end_time - r.start_time
        /\ r.total_frames = Max(r.end_frame - r.start_frame, 0)

\* C28: after a drag commit and after an accepted table edit of start_time
\* or end_time, the edited record has start_frame = round(start_time * fps),
\* end_frame = round(end_time * fps), total_time = end_time - start_time and
\* total_frames = max(end_frame - start_frame, 0), fps being the rate of the
\* record's time source.
C28_Recomputed ==
    [][ /\ Commit => TimesAndFramesAgree(annotations'[editing_idx])
        /\ \A row \in 1..MaxRecords, field \in { "start_time", "end_time" },
              value \in TableTimes :
              (table_edit_time(row, field, value) /\ msg' # "Invalid value")
                 => TimesAndFramesAgree(annotations'[row]) ]_vars

\* C28's case: a record of the 23.976 fps stream has been given an end
\* beyond that stream's duration, which no capture on it gives, and its
\* frames have followed.
C28_Witness ==
    /\ Len(annotations) = 1
    /\ annotations[1].time_source = "video-2"
    /\ annotations[1].start_time = Mark(1)
    /\ annotations[1].end_time = Mark(MaxPos)
    /\ annotations[1].total_time = Mark(MaxPos) - Mark(1)
    /\ annotations[1].start_frame = seconds_to_frames(Mark(1), 23976)
    /\ annotations[1].end_frame = seconds_to_frames(Mark(MaxPos), 23976)
    /\ annotations[1].total_frames > 0
    /\ annotations[1].total_frames # ((Mark(MaxPos) - Mark(1)) * 30) \div 1000

\* C29: every record in the store has end_time >= start_time >= 0,
\* total_time >= 0 and total_frames >= 0, after any sequence of captures,
\* drag commits, table edits and deletions from the empty store.
C29_RecordsOrdered ==
    \A i \in 1..Len(annotations) :
       /\ annotations[i].start_time >= 0
       /\ annotations[i].end_time >= annotations[i].start_time
       /\ annotations[i].total_time >= 0
       /\ annotations[i].total_frames >= 0

\* ------------------------------------------------ claims: drag gesture

\* A drag-preview event: edit_preview_drag is emitted on entering edit
\* mode, on a press on a handle and on every drag step.
PreviewDragEvent ==
    \/ \E idx \in 1..MaxRecords : enter_edit_mode(idx, FALSE)
    \/ \E handle \in Handles : mouse_press_handle(handle, FALSE)
    \/ DragStep

\* The end of a drag gesture: the debounce expiry or the commit.
GestureEnd == on_timeline_drag_end(FALSE) \/ Commit

\* C30: the first drag-preview event of a gesture records whether the time
\* source was playing and pauses it; the later events of the gesture keep
\* what was recorded; the end of the gesture resumes playback if and only
\* if playing was recorded, and clears the gesture and the recorded intent.
C30_DragIntent ==
    [][ /\ (PreviewDragEvent /\ ~timeline_drag_active) =>
              /\ timeline_drag_active'
              /\ timeline_drag_was_playing' = is_playing(pstate, time_source)
              /\ ~is_playing(pstate', time_source')
        /\ (PreviewDragEvent /\ timeline_drag_active) =>
              /\ timeline_drag_active'
              /\ timeline_drag_was_playing' = timeline_drag_was_playing
        /\ (GestureEnd /\ timeline_drag_active) =>
              /\ ~timeline_drag_active'
              /\ ~timeline_drag_was_playing'
              /\ (timeline_drag_was_playing => is_playing(pstate', time_source'))
              /\ (~timeline_drag_was_playing => pstate' = pstate) ]_vars

\* C30's case: a handle is held in a gesture that began during playback;
\* playing is recorded and the time source is paused.
C30_Witness ==
    /\ editing_idx # NoIdx
    /\ drag_mode # None
    /\ timeline_drag_active
    /\ timeline_drag_was_playing
    /\ ~is_playing(pstate, time_source)
    /\ edit_end_ms # edit_start_ms

\* ---------------------------------------------------- claims: scrubbing

\* What happens between the press and the release of the slider: seeks
\* from the moving handle and ticks of the play gate timer.
ScrubStep ==
    \/ \E p \in SliderPositions, needs \in BOOLEAN : on_slider_moved(p, needs)
    \/ play_gate_tick

\* C23: between slider press and slider release no seek and no timer tick
\* starts a stream playing, and the time source is not playing after it.
C23_NoPlayInScrub ==
    [][ (user_scrubbing /\ ScrubStep) =>
           /\ \A v \in Players : pstate'[v] = "playing" => pstate[v] = "playing"
           /\ ~is_playing(pstate', time_source') ]_vars

\* ------------------------------------------------- claims: sync engine

\* The time source reaches its end: its status becomes EndOfMedia, or the
\* sync timer finds it playing at or beyond its duration.
TimeSourceEnds ==
    \/ grid_on_media_status(time_source, "EndOfMedia")
    \/ sync_tick /\ player_dur[time_source] > 0
                 /\ position >= player_dur[time_source]

\* A stream that is not the time source reaches its end.
OtherStreamEnds ==
    \E vid \in Players \ {time_source} : grid_on_media_status(vid, "EndOfMedia")

\* C21: when the time source reaches its end, by its EndOfMedia status or
\* at a sync tick that finds it playing at position >= duration > 0, every
\* stream is stopped and the ended event is raised; the end of another
\* stream stops no stream and raises no ended event.
C21_EndStopsAll ==
    [][ /\ TimeSourceEnds =>
              /\ \A v \in Players : pstate'[v] = "stopped"
              /\ ended_events' = raise_ended(ended_events)
        /\ OtherStreamEnds =>
              /\ \A v \in Players : pstate'[v] = "stopped" => pstate[v] = "stopped"
              /\ ended_events' = ended_events ]_vars

\* A change of the master position, of the active views or of the time
\* source.
MasterChange ==
    \/ \E ms \in SyncSeeks : grid_set_position_all(ms)
    \/ \E p \in SyncPositions : on_any_position_changed(p)
    \/ \E ids \in SyncViewRequests : grid_set_active_views(ids)
    \/ grid_set_time_source("cam-3")

\* A stream's duration changes.
DurationChange ==
    \E vid \in SeqToSet(video_ids("C")) : on_any_duration_changed(vid)

\* Every active stream is marked exhausted exactly if its duration is > 0
\* and the master position is beyond it, in the state a step leads to.
MaskedIffBeyond ==
    \A v \in SeqToSet(active_views') :
       cell_black'[v] <=> (player_dur'[v] > 0 /\ position' > player_dur'[v])

\* C22: after every change of the master position, of the active views, of
\* the time source or of a stream's duration, each active stream is marked
\* exhausted if and only if its duration is > 0 and the master position is
\* beyond it; with the three streams active, their durations known and
\* cam-3 the time source, a seek to 9000 ms marks cam-2 only.
C22_MaskFollows ==
    [][ /\ (MasterChange \/ DurationChange) => MaskedIffBeyond
        /\ (grid_set_position_all(9000)
              /\ time_source = "cam-3"
              /\ Len(active_views) = 3
              /\ \A v \in Players : player_dur[v] = duration_for(v))
             => \A v \in Players : cell_black'[v] <=> v = "cam-2" ]_vars

\* ------------------------------------------- claims: pausing gestures

\* The three gestures that pause playback and remember the play intent.
InScrub == user_scrubbing
InCapture == pending.step # NoSkill
InDrag == timeline_drag_active

\* The handlers of each gesture.
ScrubGestureStep ==
    \/ on_slider_pressed
    \/ \E p \in SliderPositions : on_slider_moved(p, FALSE)
    \/ on_slider_released(FALSE)

CaptureStep ==
    \/ start_step
    \/ confirm_start(FALSE)
    \/ end_step
    \/ \E conf \in Confidences : finish_step(TRUE, conf, FALSE)

EnterEdit == \E idx \in 1..MaxKept : enter_edit_mode(idx, FALSE)

DragGestureStep ==
    \/ EnterEdit
    \/ on_timeline_drag_end(FALSE)
    \/ on_skill_timeline_edit_commit(FALSE)

\* C31 as stated: at most one of slider scrub, step capture and timeline
\* drag is in progress, and no two play-intent flags are held together.
C31_OneGesture ==
    /\ ~(InScrub /\ InCapture)
    /\ ~(InScrub /\ InDrag)
    /\ ~(InCapture /\ InDrag)
    /\ ~(scrub_was_playing /\ step_flow_was_playing)
    /\ ~(scrub_was_playing /\ timeline_drag_was_playing)
    /\ ~(step_flow_was_playing /\ timeline_drag_was_playing)

\* C31: what the guards give.  A capture starts only while the timeline is
\* not in edit mode and edit mode is entered only while no capture is
\* pending; a scrub is open to both.  Each gesture's handlers leave the
\* other gestures' progress and play intent as they are, so intents held
\* together are never merged.
C31_SeparateIntents ==
    [][ /\ (start_step /\ InCapture') => (editing_idx = NoIdx /\ drag_mode = None)
        /\ (EnterEdit /\ editing_idx' # NoIdx) => ~InCapture
        /\ ScrubGestureStep =>
              UNCHANGED << pending, step_flow_was_playing,
                           timeline_drag_active, timeline_drag_was_playing >>
        /\ CaptureStep =>
              UNCHANGED << user_scrubbing, scrub_was_playing,
                           timeline_drag_active, timeline_drag_was_playing >>
        /\ DragGestureStep =>
              UNCHANGED << user_scrubbing, scrub_was_playing,
                           pending, step_flow_was_playing >> ]_vars

\* C31's case: a scrub that began during playback is in progress inside a
\* capture that began during playback, with a record on the timeline: two
\* play intents are held.
C31_Witness ==
    /\ InScrub
    /\ InCapture
    /\ scrub_was_playing
    /\ step_flow_was_playing
    /\ Len(annotations) > 0

\* ------------------------------------------------ claims: failed saves

\* finish() that passes its checks and whose dialog is accepted.
FinishAccepted ==
    /\ ~Incomplete(pending)
    /\ ~InvalidRange(slider_value, pending.start_ms)
    /\ \E conf \in Confidences : finish_step(TRUE, conf, FALSE)

\* A deletion from the block's dialog or from the table.
Deletion ==
    \/ \E idx \in 1..MaxKept : on_skill_timeline_request_delete(idx, TRUE)
    \/ \E row \in 1..MaxKept : delete_selected_record(row)

\* C32: when the session folder cannot be written, finish() still appends
\* the record, clears the pending state and returns to Idle; a timeline
\* commit still applies the bounds and leaves edit mode; a deletion still
\* removes the record; the files stay as they were and a warning is shown.
C32_FailedSaveKeeps ==
    [][ ~disk_writable =>
          /\ (FinishAccepted /\ btn.finish) =>
                /\ Len(annotations') = Len(annotations) + 1
                /\ SubSeq(annotations', 1, Len(annotations)) = annotations
                /\ annotations'[Len(annotations')].end_time = slider_value
                /\ pending' = NoPending
                /\ btn' = IdleButtons
                /\ allow_edit'
                /\ ~step_flow_was_playing'
                /\ disk' = disk
                /\ msg' = "Autosave failed"
          /\ Commit =>
                /\ Len(annotations') = Len(annotations)
                /\ annotations'[editing_idx].start_time =
                      commit_bounds(edit_start_ms, edit_end_ms)[1]
                /\ annotations'[editing_idx].end_time =
                      commit_bounds(edit_start_ms, edit_end_ms)[2]
                /\ editing_idx' = NoIdx
                /\ ~timeline_drag_active'
                /\ disk' = disk
                /\ msg' = "Autosave failed"
          /\ Deletion =>
                /\ Len(annotations') = Len(annotations) - 1
                /\ disk' = disk
                /\ msg' = "Autosave failed" ]_vars

\* C32's case: a finish() whose autosave failed has put a record into the
\* session that the files do not hold, and the state machine is Idle.
C32_Witness ==
    /\ ~disk_writable
    /\ is_loaded
    /\ msg = "Autosave failed"
    /\ Len(annotations) > Len(disk[label].recs)
    /\ pending = NoPending
    /\ btn = IdleButtons

\* ------------------------------------------- claims: reconciliation tick

\* The distance between a stream's position and the time source's.
Drift(v) ==
    IF player_pos[v] >= position THEN player_pos[v] - position
    ELSE position - player_pos[v]

\* C33: a reconciliation tick takes a step only while the time source is
\* playing; before the end of the time source it sets exactly the other
\* streams that are more than 200 ms away to the time source's position and
\* leaves them playing, and it neither seeks nor restarts the time source
\* or the streams within 200 ms.
C33_TickSeeksDrifted ==
    [][ sync_tick =>
          /\ time_source \in Players
          /\ pstate[time_source] = "playing"
          /\ ~master_at_end(position, player_dur[time_source]) =>
                \A v \in Players :
                   IF v # time_source /\ Drift(v) > 200
                   THEN player_pos'[v] = position /\ pstate'[v] = "playing"
                   ELSE player_pos'[v] = player_pos[v] /\ pstate'[v] = pstate[v] ]_vars

\* C33's case: the time source plays before its end, one stream is 200 ms
\* away from it and another stream has been brought to its position and
\* plays.
C33_Witness ==
    /\ time_source \in Players
    /\ pstate[time_source] = "playing"
    /\ ~master_at_end(position, player_dur[time_source])
    /\ \E v \in Players \ {time_source} : Drift(v) = 200
    /\ \E v \in Players \ {time_source} :
          Drift(v) = 0 /\ position > 0 /\ pstate[v] = "playing"

\* ------------------------------------------------ claims: ticks twice

\* One reconciliation tick from the present state, and a second one right
\* after it.
SyncOnce == sync_tick_result(pstate, player_pos, cell_black, ended_events)
SyncTwice == sync_tick_result(SyncOnce.ps, SyncOnce.ppos, SyncOnce.black,
                              SyncOnce.ended)

\* One tick of the buffering gate from the present state.
GateOnce == gate_tick(Grid, media_status, deadline_elapsed)

\* C34: a second reconciliation tick right after a first one changes no
\* player state, position, placeholder or ended count and issues no seek,
\* play, stop or ended notification; a second tick of the buffering gate
\* right after a first one changes nothing and issues no play.
C34_TicksIdempotent ==
    /\ SyncTwice.ps = SyncOnce.ps
    /\ SyncTwice.ppos = SyncOnce.ppos
    /\ SyncTwice.black = SyncOnce.black
    /\ SyncTwice.ended = SyncOnce.ended
    /\ SyncTwice.issued = {}
    /\ gate_tick(GateOnce, media_status, deadline_elapsed) = GateOnce
    /\ ~gate_tick_plays(GateOnce, media_status, deadline_elapsed)

\* C34's case: a reconciliation tick is due that seeks and plays a stream,
\* and a tick of the gate is due that plays.
C34_Witness ==
    /\ {"seek", "play"} \subseteq SyncOnce.issued
    /\ gate_tick_plays(Grid, media_status, deadline_elapsed)
    /\ GateOnce # Grid

\* ------------------------------------------- claims: locked time source

\* Between confirm_start() and the end of the capture.
StartConfirmed == pending.step # NoSkill /\ pending.start_ms # NoMs

TimeSourceRequest == \E vid \in AllVideoIds : on_time_source_changed(vid)

\* finish() that appends a record.
RecordAppended ==
    /\ Len(annotations') = Len(annotations) + 1
    /\ \E conf \in Confidences, needs \in BOOLEAN : finish_step(TRUE, conf, needs)

\* C35: from confirm_start() to the end of the capture the time source is
\* the one recorded at confirm_start(); a request to change it in that
\* interval is refused and leaves the time source, the duration on the
\* slider and the pending state as they are; the record finish() appends
\* names that time source, with the start read at confirm_start() and the
\* end read at finish().
C35_TimeSourceLocked ==
    /\ [](StartConfirmed =>
            /\ time_source = pending.time_source
            /\ slider_max = duration_for(time_source))
    /\ [][ /\ (StartConfirmed /\ TimeSourceRequest) =>
                 /\ UNCHANGED << time_source, slider_max, pending, position >>
                 /\ msg' = "Time source locked"
           /\ RecordAppended =>
                 LET rec == annotations'[Len(annotations')]
                 IN  /\ rec.time_source = time_source
                     /\ rec.time_source = pending.time_source
                     /\ rec.start_time = pending.start_ms
                     /\ rec.end_time = slider_value ]_vars

\* C35's case: a request to change the time source has just been refused
\* inside a capture whose start is confirmed.
C35_Witness ==
    /\ StartConfirmed
    /\ msg = "Time source locked"
    /\ time_source = pending.time_source

\* --------------------------------------- claims: edit mode and captures

\* C36: while a capture is pending the timeline is not in edit mode, holds
\* no handle and does not offer Edit; start() while edit mode is active is
\* refused with "Editing active" and leaves the pending state, the buttons
\* and the edit as they are.
C36_NoEditInCapture ==
    /\ [](InCapture => (editing_idx = NoIdx /\ drag_mode = None /\ ~allow_edit))
    /\ [][ (is_editing /\ start_step) =>
              /\ msg' = "Editing active"
              /\ UNCHANGED << pending, btn, editing_idx, step_flow_was_playing,
                              pstate, annotations >> ]_vars

\* C36's case: a capture with a confirmed start is pending over a session
\* that holds a record, whose Edit is not offered.
C36_Witness ==
    /\ InCapture
    /\ pending.start_ms # NoMs
    /\ Len(annotations) > 0
    /\ ~allow_edit
    /\ editing_idx = NoIdx

\* ------------------------------------------ claims: pause and the gate

\* A media-status callback of any player.
MediaStatusEvent ==
    \E vid \in AllVideoIds : \E status \in MediaStatuses :
       grid_on_media_status(vid, status)

\* C37: pause_all() cancels a deferred play: after it no play is pending,
\* whatever the buffers and the deadline do next a tick of the gate plays
\* nothing, and while no play is pending no gate tick and no media-status
\* callback sets a player playing.
C37_PauseCancelsPlay ==
    [][ /\ grid_pause_all =>
              /\ ~pending_play'
              /\ ~gate_tick_plays(Grid, media_status, TRUE)'
        /\ (~pending_play /\ (grid_play_gate_tick \/ MediaStatusEvent)) =>
              \A v \in Players : pstate'[v] = "playing" => pstate[v] = "playing"
      ]_vars

\* --------------------------------------------- claims: commit's record

\* C38: from entering edit mode to the commit the edit stays on the record
\* it was entered for, whatever is done in between (deletions through the
\* table included), and the commit gives that record the committed bounds
\* and leaves every other record as it is.
C38_CommitHitsSelected ==
    [][ /\ (editing_idx # NoIdx /\ editing_idx' # NoIdx) =>
              /\ editing_idx' <= Len(annotations')
              /\ annotations'[editing_idx'] = annotations[editing_idx]
        /\ (editing_idx # NoIdx /\ Commit) =>
              /\ Len(annotations') = Len(annotations)
              /\ annotations'[editing_idx].start_time =
                    commit_bounds(edit_start_ms, edit_end_ms)[1]
              /\ annotations'[editing_idx].end_time =
                    commit_bounds(edit_start_ms, edit_end_ms)[2]
              /\ \A i \in 1..Len(annotations) :
                    i # editing_idx => annotations'[i] = annotations[i] ]_vars

\* ------------------------------------------ claims: Start in a capture

\* C39: while a capture is pending the Start control is disabled, also
\* after the data root is changed, so no start() replaces the pending
\* capture or the play intent remembered for it.
C39_StartDisabledInCapture ==
    /\ [](InCapture => ~btn.start)
    /\ [][ (InCapture /\ start_step) =>
              UNCHANGED << pending, step_flow_was_playing >> ]_vars

\* ------------------------------------------------ claims: fewest lanes

\* Two normalised intervals genuinely overlap.
GenuineOverlap(a, b) == a.end_ms > b.start_ms /\ a.start_ms < b.end_ms

\* The largest number of input intervals that pairwise genuinely overlap.
MaxOverlap(bs) ==
    LET norm == [i \in 1..Len(bs) |-> normalise(bs[i])]
        cliques == { S \in SUBSET (1..Len(bs)) :
                        \A i \in S : \A j \in S :
                           i # j => GenuineOverlap(norm[i], norm[j]) }
    IN  CHOOSE n \in 0..Len(bs) :
           /\ \E S \in cliques : Cardinality(S) = n
           /\ \A S \in cliques : Cardinality(S) <= n

\* The places (lane, position) of the result that hold the block idx.
PlacesOf(idx) ==
    { << k, j >> \in (1..Len(lanes)) \X (1..MaxBlocks) :
         j <= Len(lanes[k]) /\ lanes[k][j].idx = idx }

\* C40: stack puts every input interval, normalised, into exactly one lane
\* and uses as many lanes as the largest number of input intervals that
\* pairwise genuinely overlap; no lanes for an empty input.
C40_FewestLanes ==
    lanes # NotStacked =>
       /\ \A i \in 1..Len(blocks) :
             /\ Cardinality(PlacesOf(blocks[i].idx)) = 1
             /\ \A pl \in PlacesOf(blocks[i].idx) :
                   lanes[pl[1]][pl[2]] = normalise(blocks[i])
       /\ \A k \in 1..Len(lanes) : Len(lanes[k]) >= 1
       /\ Len(lanes) = MaxOverlap(blocks)
       /\ (blocks = << >> => Len(lanes) = 0)

\* C40's case: three intervals, one of them handed over with its ends
\* swapped, two of them touching, stacked into two lanes.
C40_Witness ==
    /\ lanes # NotStacked
    /\ Len(blocks) = 3
    /\ Len(lanes) = 2
    /\ \E i \in 1..3 : blocks[i].end_ms < blocks[i].start_ms
    /\ \E i, j \in 1..3 :
          i # j /\ normalise(blocks[i]).end_ms = normalise(blocks[j]).start_ms
                /\ normalise(blocks[i]).start_ms < normalise(blocks[i]).end_ms

====
